---- MODULE Spec2Model ----
(***************************************************************************)
(* Invoice-processing pipeline (rr916916/bas): supplier matching, PO line  *)
(* matching with consolidation and three-way match, invoice validation and *)
(* ERP posting, as implemented by the CAP handlers under srv/handlers.     *)
(*                                                                         *)
(* One invoice (InvoiceHeader) with its DOXInvoiceItem lines, its cached   *)
(* SAPPOItem rows, the SupplierVector master list and the                  *)
(* InvoiceProcessLog.  Every handler is one action.                        *)
(*                                                                         *)
(* Numbers: decimals are integers in thousandths (Decimal(13,3) quantities *)
(* are any integer, Decimal(23,2) amounts are multiples of 10); similarity *)
(* scores are integers in hundredths (0.70 is 70).  A nullable number is   *)
(* <<>> (null) or <<n>>; a nullable string is NULL or the string.          *)
(***************************************************************************)
EXTENDS Integers, Sequences, FiniteSets, TLC

\* ------------------------------------------------------------------ bounds
MaxLines == 2        \* invoice lines created by the extraction
MaxCalls == 2        \* handler invocations explored per behaviour
MaxErpItems == 1     \* PO items in one ERP response
MaxBatch == 2        \* items in one UpsertPOItems payload
MaxSuppliers == 2    \* rows of the supplier master list
MaxSummaryLines == 4 \* lines of an invoice in the PO summary specification
MaxReplies == 2      \* answers the ERP has ready for successive posting attempts

\* ------------------------------------------------------- program constants
AcceptThreshold == 70     \* po-matcher.js:142   matchScore >= 0.7
OldAcceptThreshold == 30  \* part_001:756        matchScore >= 0.3 (older revision)
RateHigh == 90            \* po-matcher.js:218   matchRate >= 0.9
RateMedium == 70          \* po-matcher.js:219   matchRate >= 0.7
QtyDecimals == 3          \* po-matcher.js:332   toNumber(.., 3)
AmtDecimals == 2          \* po-matcher.js:333   toNumber(.., 2)
SearchLimit == 10         \* supplier.js:88      LIMIT 10
CityBoost == 5            \* supplier.js:124     finalScore += 0.05
StateBoost == 3           \* supplier.js:136     finalScore += 0.03
ZipBoost == 2             \* supplier.js:148     finalScore += 0.02
ZipPrefix == 5            \* supplier.js:144     substring(0, 5)
ScoreCap == 100           \* supplier.js:155     Math.min(finalScore, 1.0)
HighBand == 95            \* supplier.js:175     matchScore >= 0.95
MediumBand == 85          \* supplier.js:178     matchScore >= 0.85
LowBand == 70             \* supplier.js:181     matchScore >= 0.70
OldHighBand == 90         \* supplier.js:567     matchScore >= 0.9
OldMediumBand == 75       \* supplier.js:570     matchScore >= 0.75
OldLowBand == 60          \* supplier.js:573     matchScore >= 0.6
ErrorLimit == 500         \* sap-posting.js:100  truncate(error.message, 500)
ReturnMessageLimit == 255 \* sap-posting.js:68   truncate(sapResponse.message, 255)
ReviewFloor == 70         \* unnamed/part_000:326  supplierMatchScore < 0.7

NULL == "NULL"
None == <<>>
Some(n) == <<n>>

\* ------------------------------------------------------------- JS helpers
\* toNumber(value, decimals) || 0
OrZero(opt) == IF opt = None THEN 0 ELSE opt[1]

Pow10(k) == IF k = 0 THEN 1 ELSE IF k = 1 THEN 10 ELSE IF k = 2 THEN 100 ELSE 1000

\* Number(num.toFixed(decimals)) on a value held in thousandths
RoundTo(n, unit) ==
  LET a == IF n < 0 THEN 0 - n ELSE n
      r == ((a + (unit \div 2)) \div unit) * unit
  IN  IF n < 0 THEN 0 - r ELSE r

\* helpers.js toNumber: null and '' give null, otherwise round to `decimals`
toNumber(value, decimals) ==
  IF value = None THEN None ELSE Some(RoundTo(value[1], Pow10(3 - decimals)))

\* helpers.js toBoolean on a raw value, given as its JSON text
\* (true is the boolean, "\"X\"" the string X, 1 the number)
toBoolean(value) ==
  value \in {"true", "\"X\"", "\"x\"", "1", "\"1\"", "\"true\""}

\* JS truthiness of a nullable string
Truthy(s) == s # NULL /\ s # ""

\* JS string concatenation with a possibly-null left operand
JsConcat(s, t) == IF s = NULL THEN "null" \o t ELSE s \o t

Min(a, b) == IF a <= b THEN a ELSE b

\* ---- address texts: a nullable text is <<>> (null) or <<chars>>, chars being
\* the sequence of its characters
Text(chars) == <<chars>>

\* JS truthiness of a nullable text: neither null nor ''
TextTruthy(t) == t # None /\ t[1] # <<>>

LowerCase == << "a","b","c","d","e","f","g","h","i","j","k","l","m",
               "n","o","p","q","r","s","t","u","v","w","x","y","z" >>
UpperCase == << "A","B","C","D","E","F","G","H","I","J","K","L","M",
               "N","O","P","Q","R","S","T","U","V","W","X","Y","Z" >>
Digits == {"0","1","2","3","4","5","6","7","8","9"}
WhiteSpace == {" ", "\t", "\n"}

\* String.prototype.toUpperCase
toUpperCase(chars) ==
  [ i \in 1..Len(chars) |->
      IF \E k \in 1..26 : LowerCase[k] = chars[i]
      THEN UpperCase[CHOOSE k \in 1..26 : LowerCase[k] = chars[i]]
      ELSE chars[i] ]

\* String.prototype.trim
RECURSIVE trimStart(_)
trimStart(chars) ==
  IF chars # <<>> /\ Head(chars) \in WhiteSpace THEN trimStart(Tail(chars)) ELSE chars
RECURSIVE trimEnd(_)
trimEnd(chars) ==
  IF chars # <<>> /\ chars[Len(chars)] \in WhiteSpace
  THEN trimEnd(SubSeq(chars, 1, Len(chars) - 1)) ELSE chars
trim(chars) == trimEnd(trimStart(chars))

\* replace(/[^0-9]/g, '').substring(0, 5)
ZipKey(chars) ==
  LET digits == SelectSeq(chars, LAMBDA c : c \in Digits)
  IN  SubSeq(digits, 1, Min(ZipPrefix, Len(digits)))

VARIABLES
  hdr,        \* the InvoiceHeader row
  lines,      \* DOXInvoiceItem rows of the invoice, in read order
  poItems,    \* SAPPOItem rows of the invoice, in read order
  nextPoId,   \* next generated SAPPOItem.ID
  suppliers,  \* SupplierVector rows
  log,        \* InvoiceProcessLog rows (append-only)
  calls,      \* number of handler invocations so far
  ret,        \* last handler invocation: operation, headerId given, outcome
  aux         \* observations of the last invocation (intermediate values)

vars == <<hdr, lines, poItems, nextPoId, suppliers, log, calls, ret, aux>>

\* new Date(): the invocations are the clock
Now == calls + 1

\* --------------------------------------------------------- identifiers
InvoiceId == "INV1"                       \* the one invoice in the store
HeaderIds == {NULL, "INV1", "INV9"}       \* missing id, the known id, an unknown id
Found(headerId) == headerId = InvoiceId   \* tx.read(InvoiceHeader, headerId)

\* ------------------------------------------------- state after extraction
\* invoice.js CreateInvoiceFromDOX: the header row as inserted
NewHeader(x) ==
  [ step |-> "DOX_EXTRACTED", status |-> "IN_PROGRESS", result |-> NULL,
    message |-> <<>>, modifiedDate |-> None,
    senderName |-> x.senderName, receiverName |-> x.receiverName,
    senderCity |-> x.senderCity, senderState |-> x.senderState,
    senderPostalCode |-> x.senderPostalCode,
    documentDate |-> x.documentDate, currencyCode |-> x.currencyCode,
    grossAmount |-> x.grossAmount, netAmount |-> x.netAmount,
    companyCode |-> IF Truthy(x.companyCode) THEN x.companyCode ELSE "1000",
    purchaseOrderNumber |-> x.purchaseOrderNumber,
    matchedSupplierNumber |-> NULL, matchedSupplierName |-> NULL,
    supplierMatchScore |-> None, supplierMatchStatus |-> NULL,
    supplier |-> NULL, supplierName |-> NULL,
    poMatchStatus |-> NULL, poMatchConfidence |-> None,
    threeWayMatchRequired |-> Some(FALSE), threeWayMatchStatus |-> NULL,
    grCheckPassed |-> None,
    approvalStatus |-> NULL, approvedBy |-> NULL, approvedAt |-> None,
    rejectionReason |-> NULL,
    accountingDocument |-> NULL, fiscalYear |-> NULL, accountingDocType |-> NULL,
    sapReturnType |-> NULL, sapReturnMessage |-> NULL, postingDate |-> None,
    sapMessageClass |-> NULL, sapMessageNumber |-> NULL, clearingDate |-> NULL,
    retryCount |-> Some(0), lastError |-> NULL, lastErrorAt |-> None ]

\* invoice.js CreateInvoiceFromDOX: one DOXInvoiceItem row as inserted
NewLine(id, item) ==
  [ ID |-> id, lineNumber |-> id,
    materialNumber |-> item.m, description |-> item.d,
    quantity |-> item.q, netAmount |-> item.n, taxAmount |-> item.t,
    matchStatus |-> "PENDING", matchedPOItem_ID |-> None, matchScore |-> None ]

\* tx.update(InvoiceHeader, ..): the schema stamps the row on every update
\* (modifiedDate : Timestamp @cds.on.update: $now)
Touch(h, now) == [h EXCEPT !.modifiedDate = Some(now)]

\* helpers.js logProcess: one InvoiceProcessLog row
logProcess(lg, step, status, result) ==
  Append(lg, [step |-> step, status |-> status, result |-> result])

\* invoice.js CreateInvoiceFromDOX line 119: the log after the extraction
ExtractionLog == logProcess(<<>>, "DOX_EXTRACTED", "COMPLETED", "SUCCESS")

\* =======================================================================
\* po-matcher.js
\* =======================================================================

\* the query string is empty: [materialNumber, description].filter(Boolean)
HasQuery(line) == Truthy(line.materialNumber) \/ Truthy(line.description)

\* mapPOItem(raw, headerId): the row written for one ERP purchase-order item
mapPOItem(raw, headerId) ==
  [ PurchaseOrder |-> raw.PurchaseOrder,
    PurchaseOrderItem |-> raw.PurchaseOrderItem,
    OrderQuantity |-> toNumber(raw.OrderQuantity, QtyDecimals),
    OpenQuantity |-> toNumber(raw.OrderQuantity, QtyDecimals),
    InvoiceIsGoodsReceiptBased |-> toBoolean(raw.InvoiceIsGoodsReceiptBased),
    GrQuantityPosted |-> Some(0),
    invoiceHeader_ID |-> headerId ]

\* tx.read(SAPPOItem).where(key): indices of the rows with that key
RowsWithKey(rows, po, item, headerId) ==
  { i \in 1..Len(rows) : /\ rows[i].PurchaseOrder = po
                         /\ rows[i].PurchaseOrderItem = item
                         /\ rows[i].invoiceHeader_ID = headerId }

MinOf(S) == CHOOSE i \in S : \A j \in S : i <= j

\* tx.update(SAPPOItem).set(item).where({ID}): every mapped field is overwritten
WithId(item, id) ==
  [ ID |-> id,
    PurchaseOrder |-> item.PurchaseOrder,
    PurchaseOrderItem |-> item.PurchaseOrderItem,
    OrderQuantity |-> item.OrderQuantity,
    OpenQuantity |-> item.OpenQuantity,
    InvoiceIsGoodsReceiptBased |-> item.InvoiceIsGoodsReceiptBased,
    GrQuantityPosted |-> item.GrQuantityPosted,
    invoiceHeader_ID |-> item.invoiceHeader_ID ]

\* the loop without the lookup of the existing row: every item is inserted
RECURSIVE UpsertLoopInsertOnly(_, _, _, _)
UpsertLoopInsertOnly(rows, nid, raws, headerId) ==
  IF raws = <<>> THEN [rows |-> rows, nid |-> nid]
  ELSE UpsertLoopInsertOnly(Append(rows, WithId(mapPOItem(Head(raws), headerId), nid)),
                            nid + 1, Tail(raws), headerId)

\* the upsert loop of SyncPOFromSAP and UpsertPOItems, one raw item after another
RECURSIVE UpsertLoop(_, _, _, _)
UpsertLoop(rows, nid, raws, headerId) ==
  IF raws = <<>> THEN [rows |-> rows, nid |-> nid]
  ELSE LET item == mapPOItem(Head(raws), headerId)
           existing == RowsWithKey(rows, item.PurchaseOrder, item.PurchaseOrderItem, headerId)
       IN  IF existing # {}
           THEN LET i == MinOf(existing)
                IN  UpsertLoop([rows EXCEPT ![i] = WithId(item, rows[i].ID)],
                               nid, Tail(raws), headerId)
           ELSE UpsertLoop(Append(rows, WithId(item, nid)), nid + 1, Tail(raws), headerId)

\* the loop of UpsertGRSnapshots over the goods-receipt items
RECURSIVE GRLoop(_, _, _, _)
GRLoop(rows, updated, grs, headerId) ==
  IF grs = <<>> THEN [rows |-> rows, updated |-> updated]
  ELSE LET g == Head(grs)
           poItem == RowsWithKey(rows, g.PurchaseOrder, g.PurchaseOrderItem, headerId)
       IN  IF poItem = {} THEN GRLoop(rows, updated, Tail(grs), headerId)
           ELSE LET i == MinOf(poItem)
                    current == rows[i]
                    incQty == OrZero(toNumber(g.QuantityInEntryUnit, QtyDecimals))
                    newGrQty == OrZero(toNumber(current.GrQuantityPosted, QtyDecimals)) + incQty
                    newOpenQty == OrZero(toNumber(current.OrderQuantity, QtyDecimals)) - newGrQty
                IN  GRLoop([rows EXCEPT ![i].GrQuantityPosted = Some(newGrQty),
                                        ![i].OpenQuantity = Some(newOpenQty)],
                           updated + 1, Tail(grs), headerId)

\* ---------------------------------------------- consolidateDuplicatePOItems
\* rows of `ls` at the indices in S, in order
RECURSIVE KeepIdx(_, _, _)
KeepIdx(ls, S, i) ==
  IF i > Len(ls) THEN <<>>
  ELSE IF i \in S THEN <<ls[i]>> \o KeepIdx(ls, S, i + 1)
  ELSE KeepIdx(ls, S, i + 1)

\* sum over the indices in S of (toNumber(field, decimals) || 0)
RECURSIVE SumField(_, _, _, _)
SumField(ls, S, field, decimals) ==
  IF S = {} THEN 0
  ELSE LET i == MinOf(S)
       IN  OrZero(toNumber(ls[i][field], decimals))
             + SumField(ls, S \ {i}, field, decimals)

\* the rows read as matchedItems: MATCHED with a PO reference
MatchedIdx(ls) ==
  { i \in 1..Len(ls) : ls[i].matchStatus = "MATCHED" /\ ls[i].matchedPOItem_ID # None }

\* the members of the group of row i (grouped[key]), i included
GroupOf(ls, i) ==
  { j \in MatchedIdx(ls) : ls[j].matchedPOItem_ID = ls[i].matchedPOItem_ID }

\* the last row read with that key is kept instead of the first
IsKeepItemLast(ls, i) ==
  i \in MatchedIdx(ls) /\ \A j \in GroupOf(ls, i) : j <= i

\* keepItem of its group: the first row read with that key
IsKeepItem(ls, i) == i \in MatchedIdx(ls) /\ i = MinOf(GroupOf(ls, i))

\* the keepItems of the groups that have duplicates
ConsolidatedKeepers(ls) ==
  { i \in MatchedIdx(ls) : IsKeepItem(ls, i) /\ GroupOf(ls, i) # {i} }

\* the duplicates of all groups (deleted rows)
DuplicateIdx(ls) == { j \in MatchedIdx(ls) : ~IsKeepItem(ls, j) }

\* the survivor keeps its own values: the duplicates' values are not added
ConsolidatedRowKeepOnly(ls, i) ==
  [ ls[i] EXCEPT !.description = JsConcat(ls[i].description, " (Consolidated)") ]

\* tx.update(keepItem).set({quantity, netAmount, taxAmount, description})
ConsolidatedRow(ls, i) ==
  [ ls[i] EXCEPT
      !.quantity = Some(SumField(ls, GroupOf(ls, i), "quantity", QtyDecimals)),
      !.netAmount = Some(SumField(ls, GroupOf(ls, i), "netAmount", AmtDecimals)),
      !.taxAmount = Some(SumField(ls, GroupOf(ls, i), "taxAmount", AmtDecimals)),
      !.description = JsConcat(ls[i].description, " (Consolidated)") ]

\* the consolidation without the deletion of the duplicates
consolidateKeepDuplicates(ls) ==
  IF MatchedIdx(ls) = {}
  THEN [lines |-> ls, consolidatedCount |-> 0, deletedCount |-> 0]
  ELSE LET K == ConsolidatedKeepers(ls)
       IN  [ lines |-> [ i \in 1..Len(ls) |->
                           IF i \in K THEN ConsolidatedRow(ls, i) ELSE ls[i] ],
             consolidatedCount |-> Cardinality(K),
             deletedCount |-> 0 ]

\* lines 291-376
consolidateDuplicatePOItems(ls) ==
  IF MatchedIdx(ls) = {}
  THEN [lines |-> ls, consolidatedCount |-> 0, deletedCount |-> 0]
  ELSE LET K == ConsolidatedKeepers(ls)
           D == DuplicateIdx(ls)
           upd == [ i \in 1..Len(ls) |->
                      IF i \in K THEN ConsolidatedRow(ls, i) ELSE ls[i] ]
       IN  [ lines |-> KeepIdx(upd, (1..Len(ls)) \ D, 1),
             consolidatedCount |-> Cardinality(K),
             deletedCount |-> Cardinality(D) ]

\* ------------------------------------------------------------ MatchPOItems
\* similarity scores the vector search can return for the best PO item
Scores == {69, 70}

\* what the top-3 vector search returns for one line: nothing when the PO has no
\* cached rows for this invoice, otherwise a best row and its score
SearchResults(rows, finalPO, headerId) ==
  LET hits == { i \in 1..Len(rows) : /\ rows[i].PurchaseOrder = finalPO
                                      /\ rows[i].invoiceHeader_ID = headerId }
  IN  IF hits = {} THEN { [found |-> FALSE] }
      ELSE { [found |-> TRUE, bestMatch |-> rows[i], matchScore |-> sc] :
               i \in hits, sc \in Scores }

\* a line with an empty query runs no search
NoSearch(rows, finalPO, headerId) ==
  CHOOSE c \in SearchResults(rows, finalPO, headerId) : TRUE

\* line 142: the best candidate is accepted
Accepted(line, c) == HasQuery(line) /\ c.found /\ c.matchScore >= AcceptThreshold

\* the matching loop of the revision that accepts from 0.3
LineAfterMatchOld(line, c) ==
  IF ~HasQuery(line) THEN line
  ELSE IF c.found
       THEN IF c.matchScore >= OldAcceptThreshold
            THEN [line EXCEPT !.matchStatus = "MATCHED",
                              !.matchedPOItem_ID = Some(c.bestMatch.ID),
                              !.matchScore = Some(c.matchScore)]
            ELSE [line EXCEPT !.matchStatus = "NO_MATCH",
                              !.matchScore = Some(c.matchScore)]
       ELSE [line EXCEPT !.matchStatus = "NO_MATCH"]

\* the tx.update of one DOX item in the matching loop (none for an empty query)
LineAfterMatch(line, c) ==
  IF ~HasQuery(line) THEN line
  ELSE IF c.found
       THEN IF c.matchScore >= AcceptThreshold
            THEN [line EXCEPT !.matchStatus = "MATCHED",
                              !.matchedPOItem_ID = Some(c.bestMatch.ID),
                              !.matchScore = Some(c.matchScore)]
            ELSE [line EXCEPT !.matchStatus = "NO_MATCH",
                              !.matchScore = Some(c.matchScore)]
       ELSE [line EXCEPT !.matchStatus = "NO_MATCH"]

\* lines 153-160: the accepted line counts for the goods-receipt check
GrRequired(line, c) == Accepted(line, c) /\ c.bestMatch.InvoiceIsGoodsReceiptBased
GrPosted(line, c) ==
  GrRequired(line, c) /\ OrZero(toNumber(c.bestMatch.GrQuantityPosted, QtyDecimals)) > 0

\* lines 222-223
ThreeWayMatchPassed(threeWayMatchRequired, grChecksPassed, grChecksRequired) ==
  ~threeWayMatchRequired \/ (grChecksPassed = grChecksRequired /\ grChecksRequired > 0)

\* lines 216-219, matchRate = matched / total
Confidence(matched, total) ==
  IF matched * 100 >= RateHigh * total THEN "HIGH"
  ELSE IF matched * 100 >= RateMedium * total THEN "MEDIUM"
  ELSE "LOW"

\* lines 226-227
PoMatchStatus(matched, total) ==
  IF matched = total THEN "MATCHED" ELSE IF matched > 0 THEN "PARTIAL" ELSE "NO_MATCH"

\* lines 48-59: the result returned when there is no PO number
NoPOResult ==
  [ totalDoxItems |-> 0, matchedItems |-> 0, unmatchedItems |-> 0,
    consolidatedItems |-> 0,
    threeWayMatchRequired |-> FALSE, threeWayMatchPassed |-> FALSE,
    confidence |-> "NONE", status |-> "NO_PO" ]

\* lines 83-94: the result returned when the invoice has no DOX items
NoItemsResult ==
  [ totalDoxItems |-> 0, matchedItems |-> 0, unmatchedItems |-> 0,
    consolidatedItems |-> 0,
    threeWayMatchRequired |-> FALSE, threeWayMatchPassed |-> FALSE,
    confidence |-> "NONE", status |-> "NO_ITEMS" ]

\* PO numbers and PO item numbers in play
PONumbers == {"PO1"}
POItemNos == {"00010", "00020"}
RawFlags == {"true", "false"}

\* sequences over S of length 0..n
SeqsUpTo(S, n) == UNION { [1..k -> S] : k \in 0..n }

\* A_PurchaseOrderItem rows the ERP returns for a PO (fetchPOItemsFromSAP)
ErpItems(po) ==
  { [ PurchaseOrder |-> po, PurchaseOrderItem |-> it,
      OrderQuantity |-> Some(5), InvoiceIsGoodsReceiptBased |-> f ] :
      it \in POItemNos, f \in RawFlags }

\* a handler ends with req.error(code, ..) before touching the store
Reject(op, headerId, code) ==
  /\ ret' = [op |-> op, headerId |-> headerId, code |-> code, res |-> [status |-> "REJECTED"]]
  /\ aux' = [kind |-> "none"]
  /\ UNCHANGED <<hdr, lines, poItems, nextPoId, suppliers, log>>

\* lines 39-60
MatchNoPO ==
  /\ hdr' = Touch([hdr EXCEPT !.poMatchStatus = "NO_MATCH", !.step = "PO_MATCH_SKIPPED",
                              !.message = <<"No PO number provided">>], Now)
  /\ ret' = [op |-> "MatchPOItems", headerId |-> InvoiceId, code |-> 200, res |-> NoPOResult]
  /\ aux' = [kind |-> "nopo", accepted |-> {}]
  /\ UNCHANGED <<lines, poItems, nextPoId, suppliers, log>>

\* lines 271-285: the catch block, after `done` lines were updated
MatchFailed(rows, nid, ls, processed, all, msg) ==
  /\ hdr' = Touch([hdr EXCEPT !.poMatchStatus = "ERROR", !.step = "PO_MATCH_ERROR",
                              !.lastError = msg, !.lastErrorAt = Some(Now)], Now)
  /\ log' = logProcess(log, "MATCH_PO", "ERROR", "FAILURE")
  /\ lines' = ls
  /\ poItems' = rows
  /\ nextPoId' = nid
  /\ ret' = [op |-> "MatchPOItems", headerId |-> InvoiceId, code |-> 500, res |-> [status |-> "FAILED"]]
  /\ aux' = [kind |-> "failed", before |-> lines, processed |-> processed, all |-> all]
  /\ UNCHANGED suppliers

\* lines 229-239: the header after the matching loop
POMatchedHeader(h, finalMatchedCount, total, threeWayMatchRequired, threeWayMatchPassed, now) ==
  Touch([h EXCEPT
    !.poMatchStatus = PoMatchStatus(finalMatchedCount, total),
    !.poMatchConfidence = Some((finalMatchedCount * 10000 + (total \div 2)) \div total),
    !.threeWayMatchRequired = Some(threeWayMatchRequired),
    !.threeWayMatchStatus =
       IF threeWayMatchRequired
       THEN (IF threeWayMatchPassed THEN "PASSED" ELSE "FAILED")
       ELSE "NOT_REQUIRED",
    !.grCheckPassed = Some(threeWayMatchPassed),
    !.step = "PO_MATCHED",
    !.message = <<"Matched and consolidated", finalMatchedCount, total>>], now)

\* the summary counts the items read before the consolidation
finalDoxItemsKept(consolidated, doxItems) == doxItems

\* lines 208-211: the DOX items are read again after the consolidation
finalDoxItemsRead(consolidated, doxItems) == consolidated

\* lines 97-269: what the matching loop, the consolidation and the summary
\* make of the lines ls (at least one) given the search results cand
PoMatchOutcome(h, ls, cand, now) ==
  LET n == Len(ls)
      accepted == { i \in 1..n : Accepted(ls[i], cand[i]) }
      matchedCount == Cardinality(accepted)
      grChecksRequired == Cardinality({ i \in 1..n : GrRequired(ls[i], cand[i]) })
      grChecksPassed == Cardinality({ i \in 1..n : GrPosted(ls[i], cand[i]) })
      threeWayMatchRequired == grChecksRequired > 0
      threeWayMatchPassed ==
        ThreeWayMatchPassed(threeWayMatchRequired, grChecksPassed, grChecksRequired)
      matchedLines == [ i \in 1..n |-> LineAfterMatch(ls[i], cand[i]) ]
      consolidationResult == consolidateDuplicatePOItems(matchedLines)
      finalDoxItems == finalDoxItemsRead(consolidationResult.lines, matchedLines)
      total == Len(finalDoxItems)
      finalMatchedCount ==
        Cardinality({ i \in 1..total : finalDoxItems[i].matchStatus = "MATCHED" })
      poMatchStatus == PoMatchStatus(finalMatchedCount, total)
  IN  [ lines |-> consolidationResult.lines,
        hdr |-> POMatchedHeader(h, finalMatchedCount, total,
                                threeWayMatchRequired, threeWayMatchPassed, now),
        logStatus |-> poMatchStatus,
        logResult |-> IF finalMatchedCount > 0 THEN "SUCCESS" ELSE "FAILURE",
        res |-> [ totalDoxItems |-> n, matchedItems |-> matchedCount,
                  unmatchedItems |-> n - matchedCount,
                  consolidatedItems |-> consolidationResult.consolidatedCount,
                  finalItemCount |-> total,
                  threeWayMatchRequired |-> threeWayMatchRequired,
                  threeWayMatchPassed |-> threeWayMatchPassed,
                  confidence |-> Confidence(finalMatchedCount, total),
                  status |-> poMatchStatus ],
        aux |-> [ kind |-> "matched", pre |-> matchedLines, cand |-> cand,
                  consolidatedCount |-> consolidationResult.consolidatedCount,
                  deletedCount |-> consolidationResult.deletedCount,
                  accepted |-> { cand[i].bestMatch : i \in accepted } ] ]

\* lines 97-269: the matching loop ran to its end
MatchCompleted(rows, nid, cand) ==
  \E o \in { PoMatchOutcome(hdr, lines, cand, Now) } :
    /\ lines' = o.lines
    /\ poItems' = rows
    /\ nextPoId' = nid
    /\ hdr' = o.hdr
    /\ log' = logProcess(log, "MATCH_PO", o.logStatus, o.logResult)
    /\ ret' = [op |-> "MatchPOItems", headerId |-> InvoiceId, code |-> 200, res |-> o.res]
    /\ aux' = o.aux
    /\ UNCHANGED suppliers

\* lines 64-269 with a PO number: sync, read the DOX items, match, consolidate
MatchWithPO(headerId, finalPO, fetchFromSAP) ==
  \E erp \in IF fetchFromSAP
              THEN {[ok |-> FALSE, items |-> <<>>]}
                     \cup {[ok |-> TRUE, items |-> its] : its \in SeqsUpTo(ErpItems(finalPO), MaxErpItems)}
              ELSE {[ok |-> TRUE, items |-> <<>>]} :
    IF ~erp.ok
    THEN MatchFailed(poItems, nextPoId, lines, {}, {}, "PO sync failed")
    ELSE \E synced \in { UpsertLoop(poItems, nextPoId, erp.items, headerId) } :
         LET n == Len(lines)
             withQuery == { i \in 1..n : HasQuery(lines[i]) }
         IN  IF n = 0
             THEN /\ ret' = [op |-> "MatchPOItems", headerId |-> headerId, code |-> 200, res |-> NoItemsResult]
                  /\ aux' = [kind |-> "noitems", accepted |-> {}]
                  /\ poItems' = synced.rows
                  /\ nextPoId' = synced.nid
                  /\ UNCHANGED <<hdr, lines, suppliers, log>>
             ELSE \E cand \in [1..n -> SearchResults(synced.rows, finalPO, headerId)] :
                    /\ \A i \in (1..n) \ withQuery :
                         cand[i] = NoSearch(synced.rows, finalPO, headerId)
                    /\ \/ MatchCompleted(synced.rows, synced.nid, cand)
                       \/ \E failAt \in withQuery :
                            \* the vector search of line failAt throws
                            MatchFailed(synced.rows, synced.nid,
                                        [ i \in 1..n |-> IF i < failAt
                                                         THEN LineAfterMatch(lines[i], cand[i])
                                                         ELSE lines[i] ],
                                        { i \in withQuery : i < failAt }, withQuery,
                                        "vector search failed")

\* line 37 with the header's PO number ignored
finalPOFromCall(poNumber, header) == poNumber

\* line 37: const finalPO = poNumber || header.purchaseOrderNumber
finalPO(poNumber, header) ==
  IF Truthy(poNumber) THEN poNumber ELSE header.purchaseOrderNumber

\* the handler of MatchPOItems run on one request
MatchPOItemsCall(headerId, poNumber, fetchFromSAP) ==
  /\ calls < MaxCalls
  /\ calls' = calls + 1
  /\ IF ~Truthy(headerId) THEN Reject("MatchPOItems", headerId, 400)
     ELSE IF ~Found(headerId) THEN Reject("MatchPOItems", headerId, 404)
     ELSE IF ~Truthy(finalPO(poNumber, hdr)) THEN MatchNoPO
     ELSE MatchWithPO(headerId, finalPO(poNumber, hdr), fetchFromSAP)

\* srv.on('MatchPOItems')
MatchPOItems ==
  \E headerId \in HeaderIds, poNumber \in {NULL} \cup PONumbers, fetchFromSAP \in BOOLEAN :
    MatchPOItemsCall(headerId, poNumber, fetchFromSAP)

\* srv.on('SyncPOFromSAP'): fetch the PO items, upsert them (no check that the
\* invoice exists); a failed fetch ends in req.error(500) before any write
SyncPOFromSAP ==
  /\ calls < MaxCalls
  /\ calls' = calls + 1
  /\ \E headerId \in HeaderIds, poNumber \in {NULL} \cup PONumbers :
       IF ~Truthy(poNumber) \/ ~Truthy(headerId) THEN Reject("SyncPOFromSAP", headerId, 400)
       ELSE \/ /\ ret' = [op |-> "SyncPOFromSAP", headerId |-> headerId, code |-> 500, res |-> [status |-> "FAILED"]]
               /\ aux' = [kind |-> "none"]
               /\ UNCHANGED <<hdr, lines, poItems, nextPoId, suppliers, log>>
            \/ \E its \in SeqsUpTo(ErpItems(poNumber), MaxErpItems) :
                 LET synced == UpsertLoop(poItems, nextPoId, its, headerId)
                 IN  /\ poItems' = synced.rows
                     /\ nextPoId' = synced.nid
                     /\ ret' = [op |-> "SyncPOFromSAP", headerId |-> headerId, code |-> 200,
                                res |-> [itemsSynced |-> Len(its)]]
                     /\ aux' = [kind |-> "none"]
                     /\ UNCHANGED <<hdr, lines, suppliers, log>>

\* srv.on('UpsertPOItems'): payload {headerId, items}
UpsertPOItems ==
  /\ calls < MaxCalls
  /\ calls' = calls + 1
  /\ \E headerId \in HeaderIds, po \in PONumbers :
       \E its \in SeqsUpTo(ErpItems(po), MaxBatch) :
         IF ~Truthy(headerId) \/ Len(its) = 0 THEN Reject("UpsertPOItems", headerId, 400)
         ELSE LET done == UpsertLoop(poItems, nextPoId, its, headerId)
              IN  /\ poItems' = done.rows
                  /\ nextPoId' = done.nid
                  /\ ret' = [op |-> "UpsertPOItems", headerId |-> headerId, code |-> 200,
                             res |-> [upserted |-> Len(its)]]
                  /\ aux' = [kind |-> "none"]
                  /\ UNCHANGED <<hdr, lines, suppliers, log>>

\* goods-receipt items of one UpsertGRSnapshots payload
GRItems ==
  { [ PurchaseOrder |-> po, PurchaseOrderItem |-> it, QuantityInEntryUnit |-> q ] :
      po \in PONumbers, it \in POItemNos, q \in {None, Some(1)} }

\* srv.on('UpsertGRSnapshots'): payload {headerId, items}
UpsertGRSnapshots ==
  /\ calls < MaxCalls
  /\ calls' = calls + 1
  /\ \E headerId \in HeaderIds, grs \in SeqsUpTo(GRItems, 1) :
       IF ~Truthy(headerId) \/ Len(grs) = 0 THEN Reject("UpsertGRSnapshots", headerId, 400)
       ELSE LET done == GRLoop(poItems, 0, grs, headerId)
            IN  /\ poItems' = done.rows
                /\ ret' = [op |-> "UpsertGRSnapshots", headerId |-> headerId, code |-> 200,
                           res |-> [updated |-> done.updated]]
                /\ aux' = [kind |-> "none"]
                /\ UNCHANGED <<hdr, lines, nextPoId, suppliers, log>>

\* ------------------------------------------------ PO matching specification
\* what the extraction can have produced for one line: text and values
LineShapes ==
  { [m |-> NULL, d |-> NULL,     q |-> Some(1), n |-> Some(10), t |-> None],
    [m |-> NULL, d |-> "widget", q |-> Some(1), n |-> Some(10), t |-> None],
    [m |-> "M1", d |-> "",       q |-> Some(2), n |-> Some(20), t |-> Some(10)] }

\* a complete extraction header; the PO specification varies the PO number only
Extraction(po) ==
  [ senderName |-> "Acme Corp", receiverName |-> NULL,
    senderCity |-> None, senderState |-> None, senderPostalCode |-> None,
    documentDate |-> "2025-01-01", currencyCode |-> "USD",
    grossAmount |-> Some(30), netAmount |-> Some(30),
    companyCode |-> NULL, purchaseOrderNumber |-> po ]

\* the PO specification runs with an empty supplier master list
NoSuppliers == <<>>

\* PO caches an earlier UpsertPOItems / UpsertGRSnapshots left for the invoice:
\* empty; item 00010 with one unit received; items 00010 (received) and 00020
\* (nothing received), all goods-receipt based
CachedRow(id, itemNo, received) ==
  [ WithId(mapPOItem([ PurchaseOrder |-> "PO1", PurchaseOrderItem |-> itemNo,
                       OrderQuantity |-> Some(5),
                       InvoiceIsGoodsReceiptBased |-> "true" ], InvoiceId), id)
      EXCEPT !.GrQuantityPosted = Some(received), !.OpenQuantity = Some(5 - received) ]
PoCaches ==
  { <<>>, <<CachedRow(1, "00010", 1)>>,
    <<CachedRow(1, "00010", 1), CachedRow(2, "00020", 0)>> }

InitPO ==
  /\ \E po \in {NULL, "PO1"} : hdr = NewHeader(Extraction(po))
  /\ \E n \in 0..MaxLines :
       \E items \in [1..n -> LineShapes] :
         lines = [ i \in 1..n |-> NewLine(i, items[i]) ]
  /\ poItems \in PoCaches
  /\ nextPoId = Len(poItems) + 1
  /\ suppliers = NoSuppliers
  /\ log = ExtractionLog
  /\ calls = 0
  /\ ret = [op |-> "CreateInvoiceFromDOX", headerId |-> InvoiceId, code |-> 200, res |-> [status |-> "SUCCESS"]]
  /\ aux = [kind |-> "none"]

NextPO == MatchPOItems \/ SyncPOFromSAP \/ UpsertPOItems \/ UpsertGRSnapshots

SpecPO == InitPO /\ [][NextPO]_vars

\* ------------------------------------------------- PO summary specification
\* longer invoices against a cache of three PO items, for the match rate: the
\* first k lines carry a description, the others nothing to search with
SummaryCache ==
  <<CachedRow(1, "00010", 1), CachedRow(2, "00020", 0), CachedRow(3, "00030", 1)>>

InitSummary ==
  /\ hdr = NewHeader(Extraction("PO1"))
  /\ \E n \in 1..MaxSummaryLines, k \in 0..MaxSummaryLines :
       /\ k <= n
       /\ lines = [ i \in 1..n |-> NewLine(i, [ m |-> NULL,
                                                d |-> IF i <= k THEN "widget" ELSE NULL,
                                                q |-> Some(1), n |-> Some(10),
                                                t |-> None ]) ]
  /\ poItems = SummaryCache
  /\ nextPoId = Len(poItems) + 1
  /\ suppliers = NoSuppliers
  /\ log = ExtractionLog
  \* earlier requests were rejected for their missing headerId; one call is left
  /\ calls = MaxCalls - 1
  /\ ret = IF calls = 0
           THEN [op |-> "CreateInvoiceFromDOX", headerId |-> InvoiceId, code |-> 200,
                 res |-> [status |-> "SUCCESS"]]
           ELSE [op |-> "MatchPOItems", headerId |-> NULL, code |-> 400,
                 res |-> [status |-> "REJECTED"]]
  /\ aux = [kind |-> "none"]

NextSummary == MatchPOItems

SpecSummary == InitSummary /\ [][NextSummary]_vars

\* =======================================================================
\* supplier.js
\* =======================================================================

\* lines 116-155: the boosted score of one candidate row
FinalScoreNoCap(header, row, nameScore) ==
  nameScore
    + (IF /\ TextTruthy(header.senderCity) /\ TextTruthy(row.city)
          /\ toUpperCase(trim(header.senderCity[1])) = toUpperCase(trim(row.city[1]))
       THEN CityBoost ELSE 0)
    + (IF /\ TextTruthy(header.senderState) /\ TextTruthy(row.state)
          /\ toUpperCase(trim(header.senderState[1])) = toUpperCase(trim(row.state[1]))
       THEN StateBoost ELSE 0)
    + (IF /\ TextTruthy(header.senderPostalCode) /\ TextTruthy(row.postalCode)
          /\ ZipKey(header.senderPostalCode[1]) # <<>>
          /\ ZipKey(row.postalCode[1]) # <<>>
          /\ ZipKey(header.senderPostalCode[1]) = ZipKey(row.postalCode[1])
       THEN ZipBoost ELSE 0)

FinalScore(header, row, nameScore) ==
  Min(FinalScoreNoCap(header, row, nameScore), ScoreCap)

\* the bands of the earlier revision of the handler (lines 567-579)
ClassifyOld(matchScore) ==
  IF matchScore >= OldHighBand THEN [confidence |-> "HIGH", matchStatus |-> "MATCHED"]
  ELSE IF matchScore >= OldMediumBand THEN [confidence |-> "MEDIUM", matchStatus |-> "MATCHED"]
  ELSE IF matchScore >= OldLowBand THEN [confidence |-> "LOW", matchStatus |-> "MANUAL_REVIEW"]
  ELSE [confidence |-> "VERY_LOW", matchStatus |-> "NO_MATCH"]

\* lines 171-187
Classify(matchScore) ==
  IF matchScore >= HighBand THEN [confidence |-> "HIGH", matchStatus |-> "MATCHED"]
  ELSE IF matchScore >= MediumBand THEN [confidence |-> "MEDIUM", matchStatus |-> "MATCHED"]
  ELSE IF matchScore >= LowBand THEN [confidence |-> "LOW", matchStatus |-> "MANUAL_REVIEW"]
  ELSE [confidence |-> "VERY_LOW", matchStatus |-> "NO_MATCH"]

\* name similarities the vector search can return
RawScores == {68, 70, 84, 85, 93, 95}

\* rows the search can see: WHERE "EMBEDDING" IS NOT NULL AND "ISACTIVE" = TRUE
Searchable(rows) == { i \in 1..Len(rows) : rows[i].hasEmbedding /\ rows[i].isActive }

\* ORDER BY "nameScore" DESC LIMIT 10: the rows the query returns
TopRows(rows, nameScore) ==
  { i \in Searchable(rows) :
      Cardinality({ j \in Searchable(rows) : nameScore[j] > nameScore[i] }) < SearchLimit }

\* ORDER BY "nameScore" DESC LIMIT 10: the orders in which the query can return
\* its rows (rows of equal name score come in either order)
OracleOrders(rows, nameScore) ==
  LET top == TopRows(rows, nameScore)
  IN  { o \in [1..Cardinality(top) -> top] :
          \A k, l \in 1..Cardinality(top) :
            k < l => o[k] # o[l] /\ nameScore[o[k]] >= nameScore[o[l]] }

\* lines 166-168 without the sort: the first row the query returned
firstReturnedIdx(header, rows, nameScore, order) == order[1]

\* lines 166-168, scoredResults.sort((a, b) => b.finalScore - a.finalScore)[0]:
\* the sort is stable, so the first returned row among those of highest final score
bestMatchIdx(header, rows, nameScore, order) ==
  LET fs(i) == FinalScore(header, rows[i], nameScore[i])
  IN  order[MinOf({ k \in 1..Len(order) :
                     \A l \in 1..Len(order) : fs(order[l]) <= fs(order[k]) })]

\* lines 196-205: the header after a match
SupplierMatchedHeader(h, bestMatch, matchScore, now) ==
  Touch(
  [ h EXCEPT !.matchedSupplierNumber = bestMatch.supplierNumber,
             !.matchedSupplierName = bestMatch.supplierName,
             !.supplierMatchScore = Some(matchScore),
             !.supplierMatchStatus = Classify(matchScore).matchStatus,
             !.supplier = bestMatch.supplierNumber,
             !.supplierName = bestMatch.supplierName,
             !.step = "SUPPLIER_MATCHED",
             !.message = <<"Supplier matched", bestMatch.supplierName,
                           Classify(matchScore).confidence>> ], now)

\* lines 39-59 and 90-111: no name on the invoice, or the search returned no row
SupplierNotFound(logStatus, msg, resMsg, searched) ==
  /\ hdr' = Touch([hdr EXCEPT !.supplierMatchStatus = "NO_MATCH",
                              !.step = "SUPPLIER_MATCH_FAILED", !.message = <<msg>>], Now)
  /\ log' = logProcess(log, "MATCH_SUPPLIER", logStatus, "FAILURE")
  /\ ret' = [op |-> "MatchSupplier", headerId |-> InvoiceId, code |-> 200, res |->
              [ supplierNumber |-> NULL, supplierName |-> NULL, matchScore |-> 0,
                confidence |-> "NONE", status |-> "NO_MATCH", message |-> resMsg ]]
  /\ aux' = [kind |-> "nosupplier", searched |-> searched]
  /\ UNCHANGED <<lines, poItems, nextPoId, suppliers>>

\* lines 238-252: the catch block
SupplierMatchError ==
  /\ hdr' = Touch([hdr EXCEPT !.supplierMatchStatus = "ERROR",
                              !.step = "SUPPLIER_MATCH_ERROR",
                              !.lastError = "search failed", !.lastErrorAt = Some(Now)], Now)
  /\ log' = logProcess(log, "MATCH_SUPPLIER", "ERROR", "FAILURE")
  /\ ret' = [op |-> "MatchSupplier", headerId |-> InvoiceId, code |-> 500, res |-> [status |-> "FAILED"]]
  /\ aux' = [kind |-> "none"]
  /\ UNCHANGED <<lines, poItems, nextPoId, suppliers>>

\* lines 113-236: candidates found, boosted, ranked, classified, written
SupplierMatched(nameScore) ==
  \E order \in OracleOrders(suppliers, nameScore) :
  \E b \in { bestMatchIdx(hdr, suppliers, nameScore, order) } :
    \E matchScore \in { FinalScore(hdr, suppliers[b], nameScore[b]) } :
      /\ hdr' = SupplierMatchedHeader(hdr, suppliers[b], matchScore, Now)
      /\ suppliers' = [suppliers EXCEPT ![b].lastChangedAt = Some(Now)]
      /\ log' = logProcess(log, "MATCH_SUPPLIER", Classify(matchScore).matchStatus,
                           IF Classify(matchScore).matchStatus = "MATCHED"
                           THEN "SUCCESS" ELSE "PARTIAL")
      /\ ret' = [op |-> "MatchSupplier", headerId |-> InvoiceId, code |-> 200, res |->
                  [ supplierNumber |-> suppliers[b].supplierNumber,
                    supplierName |-> suppliers[b].supplierName,
                    matchScore |-> matchScore,
                    confidence |-> Classify(matchScore).confidence,
                    status |-> Classify(matchScore).matchStatus ]]
      /\ aux' = [ kind |-> "supplier", header |-> hdr,
                  scored |-> { [ row |-> suppliers[i], nameScore |-> nameScore[i],
                                 finalScore |-> FinalScore(hdr, suppliers[i], nameScore[i]) ] :
                               i \in TopRows(suppliers, nameScore) },
                  returned |-> [ k \in 1..Len(order) |->
                                 [ row |-> suppliers[order[k]],
                                   nameScore |-> nameScore[order[k]] ] ] ]
      /\ UNCHANGED <<lines, poItems, nextPoId>>

\* line 39, `!supplierName`, with null taken for the only missing name
HasSupplierNameNotNull(supplierName) == supplierName # NULL

\* line 39, `!supplierName`: null and the empty string are no name
HasSupplierName(supplierName) == Truthy(supplierName)

\* srv.on('MatchSupplier')
MatchSupplier ==
  /\ calls < MaxCalls
  /\ calls' = calls + 1
  /\ \E headerId \in HeaderIds :
       IF ~Truthy(headerId) THEN Reject("MatchSupplier", headerId, 400)
       ELSE IF ~Found(headerId) THEN Reject("MatchSupplier", headerId, 404)
       ELSE LET supplierName == IF Truthy(hdr.senderName) THEN hdr.senderName
                                ELSE hdr.receiverName
            IN  IF ~HasSupplierName(supplierName)
                THEN SupplierNotFound("FAILED", "No supplier name",
                                      "No supplier name found on invoice", FALSE)
                ELSE \/ SupplierMatchError
                     \/ \E nameScore \in [Searchable(suppliers) -> RawScores] :
                          IF TopRows(suppliers, nameScore) = {}
                          THEN SupplierNotFound("NO_MATCH", "No supplier match found",
                                                "No supplier found matching", TRUE)
                          ELSE SupplierMatched(nameScore)

\* ---------------------------------------------- supplier matching specification
\* supplier master rows as SyncSuppliers and RefreshSupplierEmbeddings leave them
SupplierRows ==
  << [ supplierNumber |-> "S1", supplierName |-> "ACME Corporation",
       city |-> Text(<<"A","B">>), state |-> Text(<<"N","Y">>),
       postalCode |-> Text(<<"1","2","3","4","5","-","6","7">>),
       isActive |-> TRUE, hasEmbedding |-> TRUE, lastChangedAt |-> None ],
     [ supplierNumber |-> "S2", supplierName |-> "Acme Ltd",
       city |-> Text(<<"C">>), state |-> None,
       postalCode |-> Text(<<"A","B">>),
       isActive |-> TRUE, hasEmbedding |-> TRUE, lastChangedAt |-> None ],
     [ supplierNumber |-> "S3", supplierName |-> "Acme Old",
       city |-> Text(<<"A","B">>), state |-> Text(<<"N","Y">>),
       postalCode |-> Text(<<"1","2","3","4","5">>),
       isActive |-> FALSE, hasEmbedding |-> TRUE, lastChangedAt |-> None ] >>

\* the master lists in play: empty, S1 with S2, S1 with the inactive S3, ...
SupplierTables ==
  { t \in { SubSeq(SupplierRows, 1, m) : m \in 0..3 }
            \cup { <<SupplierRows[1], SupplierRows[3]>> } : Len(t) <= MaxSuppliers }

\* what the extraction can have read as the sender's address
SenderCities == { None, Text(<<" ","a","b">>), Text(<<"c"," ">>) }
SenderStates == { None, Text(<<"n","y"," ">>), Text(<<"C","A">>) }
SenderZips == { None, Text(<<"1","2","3","4","5">>), Text(<<"-">>), Text(<<"1","2","3","4">>) }
SenderNames == { <<"Acme Corp", NULL>>, <<"", "Acme Corp">>, <<NULL, NULL>>, <<NULL, "">> }

InitSupplier ==
  /\ \E nm \in SenderNames, c \in SenderCities, st \in SenderStates, z \in SenderZips :
       /\ (~Truthy(nm[1]) /\ ~Truthy(nm[2]) => c = None /\ st = None /\ z = None)
       /\ hdr = NewHeader([ Extraction("PO1") EXCEPT
                              !.senderName = nm[1], !.receiverName = nm[2],
                              !.senderCity = c, !.senderState = st,
                              !.senderPostalCode = z ])
  /\ lines = <<>>
  /\ poItems = <<>>
  /\ nextPoId = 1
  /\ suppliers \in SupplierTables
  /\ log = ExtractionLog
  /\ calls = 0
  /\ ret = [op |-> "CreateInvoiceFromDOX", headerId |-> InvoiceId, code |-> 200, res |-> [status |-> "SUCCESS"]]
  /\ aux = [kind |-> "none"]

NextSupplier == MatchSupplier

SpecSupplier == InitSupplier /\ [][NextSupplier]_vars

\* =======================================================================
\* workflow.js: ValidateInvoice
\* =======================================================================

\* JS truthiness of a nullable boolean
BoolTruthy(b) == b # None /\ b[1]

\* !amount || amount <= 0
AmountInvalid(amount) == amount = None \/ amount[1] <= 0

\* addError(category, field, message, severity, code): the entry pushed
Entry(code, severity) == <<[code |-> code, severity |-> severity]>>

\* the supplier check also looks at the invoice's status: an invoice already in
\* ERROR gets one more entry
SupplierEntriesByStatus(header) ==
  (IF ~Truthy(header.matchedSupplierNumber) THEN Entry("SUP_001", "ERROR")
   ELSE IF OrZero(header.supplierMatchScore) < ReviewFloor THEN Entry("SUP_002", "WARNING")
   ELSE <<>>)
  \o (IF header.status = "ERROR" THEN Entry("SUP_003", "ERROR") ELSE <<>>)

\* lines 323-330: null < 0.7 compares 0 < 0.7
SupplierEntries(header) ==
  IF ~Truthy(header.matchedSupplierNumber) THEN Entry("SUP_001", "ERROR")
  ELSE IF OrZero(header.supplierMatchScore) < ReviewFloor THEN Entry("SUP_002", "WARNING")
  ELSE <<>>

\* lines 335-358 as an else-if chain: only the first failing check is reported
AmountEntriesFirstOnly(header) ==
  IF AmountInvalid(header.netAmount) THEN Entry("AMT_001", "ERROR")
  ELSE IF AmountInvalid(header.grossAmount) THEN Entry("AMT_002", "ERROR")
  ELSE IF ~Truthy(header.currencyCode) THEN Entry("AMT_003", "ERROR")
  ELSE IF ~Truthy(header.documentDate) THEN Entry("AMT_004", "ERROR")
  ELSE IF ~Truthy(header.companyCode) THEN Entry("AMT_005", "ERROR")
  ELSE <<>>

\* lines 335-358
AmountEntries(header) ==
  (IF AmountInvalid(header.netAmount) THEN Entry("AMT_001", "ERROR") ELSE <<>>)
  \o (IF AmountInvalid(header.grossAmount) THEN Entry("AMT_002", "ERROR") ELSE <<>>)
  \o (IF ~Truthy(header.currencyCode) THEN Entry("AMT_003", "ERROR") ELSE <<>>)
  \o (IF ~Truthy(header.documentDate) THEN Entry("AMT_004", "ERROR") ELSE <<>>)
  \o (IF ~Truthy(header.companyCode) THEN Entry("AMT_005", "ERROR") ELSE <<>>)

\* the PO check without the test for a non-empty line set
POEntriesAnyCount(header, doxItems) ==
  IF ~Truthy(header.purchaseOrderNumber) THEN <<>>
  ELSE LET matchedCount ==
             Cardinality({ i \in 1..Len(doxItems) : doxItems[i].matchStatus = "MATCHED" })
       IN  IF matchedCount = 0 THEN Entry("PO_001", "ERROR")
           ELSE IF matchedCount < Len(doxItems) THEN Entry("PO_002", "WARNING")
           ELSE <<>>

\* lines 363-374
POEntries(header, doxItems) ==
  IF ~Truthy(header.purchaseOrderNumber) THEN <<>>
  ELSE LET matchedCount ==
             Cardinality({ i \in 1..Len(doxItems) : doxItems[i].matchStatus = "MATCHED" })
       IN  IF matchedCount = 0 /\ Len(doxItems) > 0 THEN Entry("PO_001", "ERROR")
           ELSE IF matchedCount < Len(doxItems) THEN Entry("PO_002", "WARNING")
           ELSE <<>>

\* lines 376-389, inside the PO-number check
ThreeWayEntries(header) ==
  IF ~Truthy(header.purchaseOrderNumber) \/ ~BoolTruthy(header.threeWayMatchRequired)
  THEN <<>>
  ELSE (IF ~BoolTruthy(header.grCheckPassed) THEN Entry("GR_001", "ERROR") ELSE <<>>)
       \o (IF header.threeWayMatchStatus = "FAILED" THEN Entry("GR_002", "ERROR") ELSE <<>>)

WithSeverity(entries, severity) == SelectSeq(entries, LAMBDA e : e.severity = severity)

\* one category as returned: errors holds every entry, warnings the WARNING ones
Category(entries) ==
  [ passed |-> Len(WithSeverity(entries, "ERROR")) = 0,
    errors |-> entries,
    warnings |-> WithSeverity(entries, "WARNING") ]

\* the severity filter is forgotten: every entry counts as an error
AggregateCountAll(sup, amt, po, gr) ==
  LET errorCount == Len(sup \o amt \o po \o gr)
      warningCount == Len(WithSeverity(sup \o amt \o po \o gr, "WARNING"))
  IN  [ isValid |-> errorCount = 0,
        status |-> IF errorCount > 0 THEN "INVALID"
                   ELSE IF warningCount > 0 THEN "VALID_WITH_WARNINGS" ELSE "VALID",
        supplierValidation |-> Category(sup), amountValidation |-> Category(amt),
        poValidation |-> Category(po), threeWayMatchValidation |-> Category(gr),
        errorCount |-> errorCount, warningCount |-> warningCount ]

\* lines 395-439
Aggregate(sup, amt, po, gr) ==
  LET errorCount == Len(WithSeverity(sup \o amt \o po \o gr, "ERROR"))
      warningCount == Len(WithSeverity(sup \o amt \o po \o gr, "WARNING"))
  IN  [ isValid |-> errorCount = 0,
        status |-> IF errorCount > 0 THEN "INVALID"
                   ELSE IF warningCount > 0 THEN "VALID_WITH_WARNINGS" ELSE "VALID",
        supplierValidation |-> Category(sup), amountValidation |-> Category(amt),
        poValidation |-> Category(po), threeWayMatchValidation |-> Category(gr),
        errorCount |-> errorCount, warningCount |-> warningCount ]

\* lines 307-439: the validation of the invoice as read
Validation(header, doxItems) ==
  Aggregate(SupplierEntries(header), AmountEntries(header),
            POEntries(header, doxItems), ThreeWayEntries(header))

\* the update also writes the header's result
ValidatedHeaderWithResult(h, validation, now) ==
  Touch([h EXCEPT !.step = IF validation.isValid THEN "VALIDATED" ELSE "VALIDATION_FAILED",
                  !.status = IF validation.isValid THEN "IN_PROGRESS" ELSE "ERROR",
                  !.result = IF validation.isValid THEN "SUCCESS" ELSE "FAILURE",
                  !.message = <<validation.status, validation.errorCount,
                                validation.warningCount>>], now)

\* lines 441-446
ValidatedHeader(h, validation, now) ==
  Touch([h EXCEPT !.step = IF validation.isValid THEN "VALIDATED" ELSE "VALIDATION_FAILED",
                  !.status = IF validation.isValid THEN "IN_PROGRESS" ELSE "ERROR",
                  !.message = <<validation.status, validation.errorCount,
                                validation.warningCount>>], now)

\* srv.on('ValidateInvoice')
ValidateInvoice ==
  /\ calls < MaxCalls
  /\ calls' = calls + 1
  /\ \E headerId \in HeaderIds :
       IF ~Truthy(headerId) THEN Reject("ValidateInvoice", headerId, 400)
       ELSE IF ~Found(headerId) THEN Reject("ValidateInvoice", headerId, 404)
       ELSE \/ \* the read throws: catch, req.error(500), nothing written
               /\ ret' = [op |-> "ValidateInvoice", headerId |-> headerId, code |-> 500, res |-> [status |-> "FAILED"]]
               /\ aux' = [kind |-> "none"]
               /\ UNCHANGED <<hdr, lines, poItems, nextPoId, suppliers, log>>
            \/ \E validation \in { Validation(hdr, lines) } :
                 /\ hdr' = ValidatedHeader(hdr, validation, Now)
                 /\ log' = logProcess(log, "VALIDATE",
                                      IF validation.isValid THEN "PASSED" ELSE "FAILED",
                                      IF validation.isValid THEN "SUCCESS" ELSE "FAILURE")
                 /\ ret' = [op |-> "ValidateInvoice", headerId |-> headerId, code |-> 200, res |-> validation]
                 /\ aux' = [ kind |-> "validated",
                             prior |-> IF ret.op = "ValidateInvoice" /\ ret.code = 200
                                       THEN <<ret.res>> ELSE <<>> ]
                 /\ UNCHANGED <<lines, poItems, nextPoId, suppliers>>

\* ------------------------------------------------- validation specification
\* what the extraction can have read into the header's amounts and dates
HeaderShapes ==
  { Extraction("PO1"),
    [ Extraction("PO1") EXCEPT !.netAmount = None ],
    [ Extraction("PO1") EXCEPT !.grossAmount = Some(0) ],
    [ Extraction("PO1") EXCEPT !.currencyCode = NULL, !.documentDate = NULL ],
    [ Extraction("PO1") EXCEPT !.currencyCode = NULL, !.netAmount = None ] }

\* the company code on the row: the one CreateInvoiceFromDOX always writes, or
\* none after the row was changed through the service's InvoiceHeader entity
CompanyCodes == {"1000", NULL}

\* the invoice after the steps that precede validation: extraction, then
\* optionally MatchSupplier (supplier S1 as top candidate at 0.68 or 0.70), then
\* optionally MatchPOItems against a cache of two goods-receipt based items.
\* `stage` says how far PO matching got; earlier steps are stamped with time 0.
ProcessedInvoice(x, po, supScore, ls, stage, cand) ==
  LET h0 == NewHeader([x EXCEPT !.purchaseOrderNumber = po])
      h1 == IF supScore = None THEN h0
            ELSE SupplierMatchedHeader(h0, SupplierRows[1], supScore[1], 0)
      lg1 == IF supScore = None THEN ExtractionLog
             ELSE logProcess(ExtractionLog, "MATCH_SUPPLIER",
                             Classify(supScore[1]).matchStatus,
                             IF Classify(supScore[1]).matchStatus = "MATCHED"
                             THEN "SUCCESS" ELSE "PARTIAL")
      sups == IF supScore = None THEN NoSuppliers
              ELSE <<[SupplierRows[1] EXCEPT !.lastChangedAt = Some(0)]>>
  IN  IF stage = "matched"
      THEN LET o == PoMatchOutcome(h1, ls, cand, 0)
           IN  [ hdr |-> o.hdr, lines |-> o.lines, suppliers |-> sups,
                 log |-> logProcess(lg1, "MATCH_PO", o.logStatus, o.logResult) ]
      ELSE IF stage = "skipped"
      THEN [ hdr |-> Touch([h1 EXCEPT !.poMatchStatus = "NO_MATCH",
                                      !.step = "PO_MATCH_SKIPPED",
                                      !.message = <<"No PO number provided">>], 0),
             lines |-> ls, suppliers |-> sups, log |-> lg1 ]
      ELSE [hdr |-> h1, lines |-> ls, suppliers |-> sups, log |-> lg1]

FullCache == <<CachedRow(1, "00010", 1), CachedRow(2, "00020", 0)>>

InitProcessed ==
  /\ \E x \in HeaderShapes, po \in {NULL, "PO1"}, supScore \in {None, Some(68), Some(70)} :
     \E n \in 0..MaxLines :
     \E items \in [1..n -> LineShapes] :
     \E stage \in {"none", "skipped", "matched"}, cc \in CompanyCodes :
       LET ls == [ i \in 1..n |-> NewLine(i, items[i]) ]
           cache == IF stage = "matched" THEN FullCache ELSE <<>>
       IN  /\ stage = "skipped" => po = NULL
           /\ stage = "matched" => (po = "PO1" /\ n > 0)
           /\ cc = NULL => (stage = "none" /\ supScore = None)
           /\ poItems = cache
           /\ \E cand \in [1..n -> SearchResults(cache, "PO1", InvoiceId)] :
                /\ \A i \in 1..n :
                     (~HasQuery(ls[i]) \/ stage # "matched")
                       => cand[i] = NoSearch(cache, "PO1", InvoiceId)
                /\ \E inv \in { ProcessedInvoice(x, po, supScore, ls, stage, cand) } :
                     /\ hdr = [inv.hdr EXCEPT !.companyCode = cc]
                     /\ lines = inv.lines
                     /\ suppliers = inv.suppliers
                     /\ log = inv.log
  /\ nextPoId = Len(poItems) + 1
  /\ calls = 0
  /\ ret = [op |-> "CreateInvoiceFromDOX", headerId |-> InvoiceId, code |-> 200, res |-> [status |-> "SUCCESS"]]
  /\ aux = [kind |-> "none"]

NextValidate == ValidateInvoice

SpecValidate == InitProcessed /\ [][NextValidate]_vars

\* ------------------------------------- supplier matching, then validation
\* the two steps on the invoices and supplier lists of the supplier specification
NextSupplierValidate == MatchSupplier \/ ValidateInvoice

SpecSupplierValidate == InitSupplier /\ [][NextSupplierValidate]_vars

\* =======================================================================
\* sap-posting.js
\* =======================================================================

\* helpers.js truncate: '' for a missing value, else substring(0, maxLength)
truncate(value, maxLength) ==
  IF ~Truthy(value) THEN "" ELSE SubSeq(value, 1, Min(Len(value), maxLength))

\* what the ERP answers to one POST
ErpReplyValues ==
  { [ok |-> TRUE, document |-> "5100000001", fiscalYear |-> "2025", message |-> "created"],
    [ok |-> FALSE, document |-> NULL, fiscalYear |-> NULL, message |-> "ERP unavailable"] }

\* a failed POST is sent again
PostWithRetry(replies) ==
  IF replies[1].ok THEN [attempts |-> 1, reply |-> replies[1]]
  ELSE [attempts |-> 2, reply |-> replies[2]]

\* lines 50-58 with postSupplierInvoice / postAccountingDocument: one POST
PostOnce(replies) == [attempts |-> 1, reply |-> replies[1]]

\* String(n).padStart(4, '0')
padStart4(n) ==
  LET str == ToString(n)
  IN  IF Len(str) >= 4 THEN str
      ELSE SubSeq("0000", 1, 4 - Len(str)) \o str

\* line 272 with the invoice's line number in place of the position in the payload
SupplierInvoiceItemByLine(items, doxItem) == padStart4(doxItem.lineNumber)

\* line 272: SupplierInvoiceItem: String(items.length + 1).padStart(4, '0')
SupplierInvoiceItem(items, doxItem) == padStart4(Len(items) + 1)

\* header.poItems: the SAPPOItem rows composed into the invoice
HeaderPoItems(rows, headerId) ==
  SelectSeq(rows, LAMBDA pi : pi.invoiceHeader_ID = headerId)

\* buildSupplierInvoicePayload lines 259-283: the loop over header.doxItems that
\* fills to_SuplrInvcItemPurOrdRef (of an item, the number and the fields taken
\* from the PO row and the header; amounts and units are left out)
RECURSIVE PayloadItems(_, _, _, _)
PayloadItems(header, doxItems, headerPoItems, items) ==
  IF doxItems = <<>> THEN items
  ELSE LET doxItem == Head(doxItems)
           hits == IF doxItem.matchedPOItem_ID = None THEN {}
                   ELSE { i \in 1..Len(headerPoItems) :
                            headerPoItems[i].ID = doxItem.matchedPOItem_ID[1] }
       IN  IF doxItem.matchStatus # "MATCHED" \/ doxItem.matchedPOItem_ID = None
           THEN PayloadItems(header, Tail(doxItems), headerPoItems, items)
           ELSE IF hits = {}
           THEN PayloadItems(header, Tail(doxItems), headerPoItems, items)
           ELSE LET poItem == headerPoItems[MinOf(hits)]
                IN  PayloadItems(header, Tail(doxItems), headerPoItems,
                      Append(items,
                        [ SupplierInvoiceItem |-> SupplierInvoiceItem(items, doxItem),
                          PurchaseOrder |-> poItem.PurchaseOrder,
                          PurchaseOrderItem |-> poItem.PurchaseOrderItem,
                          DocumentCurrency |-> header.currencyCode ]))

\* the items of the payload PostToSAP sends: postSupplierInvoice builds them
\* with buildSupplierInvoicePayload, postAccountingDocument builds none
PostedItems(postingType, headerId) ==
  IF postingType = "SUPPLIER_INVOICE"
  THEN PayloadItems(hdr, lines, HeaderPoItems(poItems, headerId), <<>>)
  ELSE <<>>

\* lines 60-91: the ERP accepted the document
Posted(postingType, attempt, replies, items) ==
  LET success == TRUE     \* sapResponse.type === 'S', the only type returned
  IN  /\ hdr' = Touch([hdr EXCEPT
             !.accountingDocument = attempt.reply.document,
             !.fiscalYear = attempt.reply.fiscalYear,
             !.accountingDocType =
                IF postingType = "SUPPLIER_INVOICE" THEN "RE" ELSE "KR",
             !.sapReturnType = "S",
             !.sapReturnMessage = truncate(attempt.reply.message, ReturnMessageLimit),
             !.sapMessageClass = "", !.sapMessageNumber = "",
             !.step = IF success THEN "POSTED" ELSE "POST_FAILED",
             !.status = IF success THEN "COMPLETED" ELSE "ERROR",
             !.result = IF success THEN "SUCCESS" ELSE "FAILURE",
             !.postingDate = IF success THEN Some(Now) ELSE None], Now)
      /\ log' = logProcess(log, "SAP_POST", "POSTED", "SUCCESS")
      /\ ret' = [op |-> "PostToSAP", headerId |-> InvoiceId, code |-> 200, res |->
                  [ success |-> success, accountingDocument |-> attempt.reply.document,
                    fiscalYear |-> attempt.reply.fiscalYear ]]
      /\ aux' = [ kind |-> "post", replies |-> replies, attempts |-> attempt.attempts,
                  before |-> hdr, postingType |-> postingType,
                  to_SuplrInvcItemPurOrdRef |-> items ]
      /\ UNCHANGED <<lines, poItems, nextPoId, suppliers>>

\* lines 93-109: the catch block
PostFailed(postingType, attempt, replies, items) ==
  /\ hdr' = Touch([hdr EXCEPT
         !.step = "POST_ERROR", !.status = "ERROR", !.result = "FAILURE",
         !.lastError = truncate(attempt.reply.message, ErrorLimit),
         !.lastErrorAt = Some(Now),
         !.retryCount = Some(OrZero(hdr.retryCount) + 1)], Now)
  /\ log' = logProcess(log, "SAP_POST", "ERROR", "FAILURE")
  /\ ret' = [op |-> "PostToSAP", headerId |-> InvoiceId, code |-> 500, res |-> [success |-> FALSE]]
  /\ aux' = [ kind |-> "post", replies |-> replies, attempts |-> attempt.attempts,
              before |-> hdr, postingType |-> postingType,
              to_SuplrInvcItemPurOrdRef |-> items ]
  /\ UNCHANGED <<lines, poItems, nextPoId, suppliers>>

\* srv.on('PostToSAP')
PostToSAP ==
  /\ calls < MaxCalls
  /\ calls' = calls + 1
  /\ \E headerId \in HeaderIds,
        postingType \in {"SUPPLIER_INVOICE", "ACCOUNTING_DOC", "CREDIT_MEMO"} :
       IF ~Truthy(headerId) THEN Reject("PostToSAP", headerId, 400)
       ELSE IF ~Found(headerId) THEN Reject("PostToSAP", headerId, 404)
       ELSE IF postingType \notin {"SUPPLIER_INVOICE", "ACCOUNTING_DOC"}
       THEN Reject("PostToSAP", headerId, 400)
       ELSE \E replies \in [1..MaxReplies -> ErpReplyValues] :
            \E attempt \in { PostOnce(replies) } :
            \E items \in { PostedItems(postingType, headerId) } :
              IF attempt.reply.ok THEN Posted(postingType, attempt, replies, items)
              ELSE PostFailed(postingType, attempt, replies, items)

\* srv.on('RecordPostingResult'): the posting result reported from outside; the
\* handler does not look the invoice up
RecordPostingResult ==
  /\ calls < MaxCalls
  /\ calls' = calls + 1
  /\ \E headerId \in HeaderIds, sapReturnType \in {"S", "E"} :
       IF ~Truthy(headerId) THEN Reject("RecordPostingResult", headerId, 400)
       ELSE LET isSuccess == sapReturnType = "S"
            IN  /\ hdr' = IF Found(headerId)
                          THEN Touch([hdr EXCEPT
                                 !.accountingDocument = IF isSuccess THEN "5100000001" ELSE NULL,
                                 !.fiscalYear = IF isSuccess THEN "2025" ELSE NULL,
                                 !.accountingDocType = IF isSuccess THEN "RE" ELSE NULL,
                                 !.sapReturnType = sapReturnType,
                                 !.sapReturnMessage = truncate("reported", ReturnMessageLimit),
                                 !.sapMessageClass = "", !.sapMessageNumber = "",
                                 !.clearingDate = NULL,
                                 !.status = IF isSuccess THEN "COMPLETED" ELSE "ERROR",
                                 !.step = IF isSuccess THEN "POSTED" ELSE "POST_FAILED",
                                 !.result = IF isSuccess THEN "SUCCESS" ELSE "FAILURE"], Now)
                          ELSE hdr
                /\ log' = logProcess(log, "SAP_POST",
                                     IF isSuccess THEN "POSTED" ELSE "FAILED",
                                     IF isSuccess THEN "SUCCESS" ELSE "FAILURE")
                /\ ret' = [op |-> "RecordPostingResult", headerId |-> headerId, code |-> 200, res |->
                            [status |-> IF isSuccess THEN "SUCCESS" ELSE "FAILURE"]]
                /\ aux' = [kind |-> "none"]
                /\ UNCHANGED <<lines, poItems, nextPoId, suppliers>>

\* --------------------------------------------------- posting specification
\* invoices as the earlier steps leave them, with lines of one shape
InitPosting ==
  /\ \E x \in HeaderShapes, po \in {NULL, "PO1"}, supScore \in {None, Some(68), Some(70)} :
     \E n \in 0..MaxLines :
     \E inv \in { ProcessedInvoice(x, po, supScore,
                    [ i \in 1..n |-> NewLine(i, [m |-> NULL, d |-> "widget", q |-> Some(1),
                                                 n |-> Some(10), t |-> None]) ],
                    "none", <<>>) } :
       /\ hdr = inv.hdr
       /\ lines = inv.lines
       /\ suppliers = inv.suppliers
       /\ log = inv.log
  /\ poItems = <<>>
  /\ nextPoId = 1
  /\ calls = 0
  /\ ret = [op |-> "CreateInvoiceFromDOX", headerId |-> InvoiceId, code |-> 200, res |-> [status |-> "SUCCESS"]]
  /\ aux = [kind |-> "none"]

NextPosting == PostToSAP \/ RecordPostingResult

SpecPost == InitPosting /\ [][NextPosting]_vars

\* --------------------------------------------------- payload specification
\* buildSupplierInvoicePayload is a function of header.doxItems and
\* header.poItems; its inputs are drawn from what the two tables can hold.
\* A DOX item as the matching loop leaves it: never matched, matched to PO row
\* 1, 2 or 3, or NO_MATCH with the reference of an earlier match still on it
LineMatchStates ==
  { [matchStatus |-> "PENDING", matchedPOItem_ID |-> None, matchScore |-> None],
    [matchStatus |-> "NO_MATCH", matchedPOItem_ID |-> None, matchScore |-> Some(69)],
    [matchStatus |-> "NO_MATCH", matchedPOItem_ID |-> Some(1), matchScore |-> Some(69)],
    [matchStatus |-> "MATCHED", matchedPOItem_ID |-> Some(1), matchScore |-> Some(70)],
    [matchStatus |-> "MATCHED", matchedPOItem_ID |-> Some(2), matchScore |-> Some(70)],
    [matchStatus |-> "MATCHED", matchedPOItem_ID |-> Some(3), matchScore |-> Some(70)] }

\* SAPPOItem tables: both rows of the invoice; row 2 gone; row 3 present but
\* belonging to another invoice
PayloadCaches ==
  { FullCache,
    <<CachedRow(1, "00010", 1)>>,
    <<CachedRow(1, "00010", 1), CachedRow(2, "00020", 0),
      [CachedRow(3, "00010", 0) EXCEPT !.invoiceHeader_ID = "INV9"]>> }

InitPayload ==
  /\ \E n \in 0..MaxLines :
     \E ms \in [1..n -> LineMatchStates] :
       LET matched == { i \in 1..n : ms[i].matchStatus = "MATCHED" }
           received == { i \in matched : ms[i].matchedPOItem_ID = Some(1) }
           finalMatchedCount == Cardinality(matched)
           h0 == NewHeader(Extraction("PO1"))
       IN  /\ lines = [ i \in 1..n |->
                        [ NewLine(i, [ m |-> NULL,
                                       d |-> IF ms[i].matchStatus = "PENDING"
                                             THEN NULL ELSE "widget",
                                       q |-> Some(1), n |-> Some(10), t |-> None ])
                            EXCEPT !.matchStatus = ms[i].matchStatus,
                                   !.matchedPOItem_ID = ms[i].matchedPOItem_ID,
                                   !.matchScore = ms[i].matchScore ] ]
           \* header and log as MatchPOItems leaves them with these lines
           /\ hdr = IF n = 0 THEN h0
                    ELSE POMatchedHeader(h0, finalMatchedCount, n, finalMatchedCount > 0,
                           ThreeWayMatchPassed(finalMatchedCount > 0,
                                               Cardinality(received), finalMatchedCount), 0)
           /\ log = IF n = 0 THEN ExtractionLog
                    ELSE logProcess(ExtractionLog, "MATCH_PO",
                                    PoMatchStatus(finalMatchedCount, n),
                                    IF finalMatchedCount > 0 THEN "SUCCESS" ELSE "FAILURE")
  /\ poItems \in PayloadCaches
  /\ nextPoId = 4
  /\ suppliers = NoSuppliers
  /\ calls = 0
  /\ ret = [op |-> "CreateInvoiceFromDOX", headerId |-> InvoiceId, code |-> 200, res |-> [status |-> "SUCCESS"]]
  /\ aux = [kind |-> "none"]

NextPayload == PostToSAP

SpecPayload == InitPayload /\ [][NextPayload]_vars

\* =======================================================================
\* Properties of PO matching (checked under SpecPO)
\* =======================================================================

\* sum of a nullable field over the rows of ls at the indices in S, null as 0
RECURSIVE TotalOf(_, _, _)
TotalOf(ls, S, field) ==
  IF S = {} THEN 0
  ELSE LET i == CHOOSE x \in S : TRUE
       IN  OrZero(ls[i][field]) + TotalOf(ls, S \ {i}, field)

\* the MATCHED rows of ls that reference the PO line row i references
RefGroup(ls, i) ==
  { j \in 1..Len(ls) : /\ ls[j].matchStatus = "MATCHED"
                       /\ ls[j].matchedPOItem_ID # None
                       /\ ls[j].matchedPOItem_ID = ls[i].matchedPOItem_ID }

\* rows of ls that belong to a group of two or more
InMultiGroup(ls) ==
  { i \in 1..Len(ls) : /\ ls[i].matchStatus = "MATCHED"
                       /\ ls[i].matchedPOItem_ID # None
                       /\ Cardinality(RefGroup(ls, i)) >= 2 }

IdsOf(ls, S) == { ls[j].ID : j \in S }

\* MatchPOItems just ran its consolidation; aux.pre holds the lines before it
Consolidated == ret.op = "MatchPOItems" /\ ret.code = 200 /\ aux.kind = "matched"

\* C1: consolidation conserves values. For every group of two or more MATCHED
\* lines that reference the same PO line, exactly one member survives and its
\* quantity, net amount and tax amount are the sums of that field over the
\* group before consolidation (null counted as 0); the invoice totals of the
\* three fields over all lines are the same before and after.
C1_ValueConserving ==
  Consolidated =>
    /\ \A i \in InMultiGroup(aux.pre) :
         LET G == RefGroup(aux.pre, i)
             S == { k \in 1..Len(lines) : lines[k].ID \in IdsOf(aux.pre, G) }
         IN  /\ Cardinality(S) = 1
             /\ \A k \in S :
                  /\ lines[k].quantity = Some(TotalOf(aux.pre, G, "quantity"))
                  /\ lines[k].netAmount = Some(TotalOf(aux.pre, G, "netAmount"))
                  /\ lines[k].taxAmount = Some(TotalOf(aux.pre, G, "taxAmount"))
    /\ \A f \in {"quantity", "netAmount", "taxAmount"} :
         TotalOf(lines, 1..Len(lines), f) = TotalOf(aux.pre, 1..Len(aux.pre), f)

\* C1 witness: a group was consolidated in which one member had no tax amount
\* and another had one
C1_Witness ==
  /\ Consolidated
  /\ Len(lines) < Len(aux.pre)
  /\ \E i \in InMultiGroup(aux.pre) :
       \E j \in RefGroup(aux.pre, i) :
         aux.pre[i].taxAmount = None /\ aux.pre[j].taxAmount # None

\* sum over a set of groups of (group size - 1)
RECURSIVE ExcessOf(_)
ExcessOf(groups) ==
  IF groups = {} THEN 0
  ELSE LET g == CHOOSE x \in groups : TRUE
       IN  (Cardinality(g) - 1) + ExcessOf(groups \ {g})

\* C2: after consolidation the number of lines is the number before minus the
\* sum over the groups of (size - 1); exactly the members of multi-member
\* groups other than the first-seen one are deleted; deletedCount is the number
\* of deleted lines and consolidatedCount the number of multi-member groups.
C2_LineCount ==
  Consolidated =>
    LET pre == aux.pre
        multi == InMultiGroup(pre)
        groups == { RefGroup(pre, i) : i \in multi }
        firstSeen == { i \in multi : \A j \in RefGroup(pre, i) : i <= j }
        deleted == IdsOf(pre, 1..Len(pre)) \ IdsOf(lines, 1..Len(lines))
    IN  /\ Len(lines) = Len(pre) - ExcessOf(groups)
        /\ deleted = IdsOf(pre, multi \ firstSeen)
        /\ IdsOf(pre, firstSeen) \subseteq IdsOf(lines, 1..Len(lines))
        /\ Cardinality(IdsOf(lines, 1..Len(lines))) = Len(lines)
        /\ aux.deletedCount = Cardinality(deleted)
        /\ aux.consolidatedCount = Cardinality(groups)
        /\ ret.res.consolidatedItems = Cardinality(groups)

\* C2 witness: two lines matched the same PO line and one of them was deleted
C2_Witness ==
  /\ Consolidated
  /\ InMultiGroup(aux.pre) # {}
  /\ aux.deletedCount = 1
  /\ aux.consolidatedCount = 1
  /\ Len(lines) = Len(aux.pre) - 1

\* C3: in every result MatchPOItems returns, threeWayMatchRequired is false
\* whenever no matched PO line is goods-receipt based, and threeWayMatchPassed
\* is true exactly when threeWayMatchRequired is false or every goods-receipt
\* based matched PO line has a received quantity above 0 and there is one.
C3_ThreeWayMatch ==
  (ret.op = "MatchPOItems" /\ ret.code = 200) =>
    LET grBased == { r \in aux.accepted : r.InvoiceIsGoodsReceiptBased }
    IN  /\ (grBased = {} => ~ret.res.threeWayMatchRequired)
        /\ ret.res.threeWayMatchPassed <=>
             \/ ~ret.res.threeWayMatchRequired
             \/ /\ \A r \in grBased : OrZero(r.GrQuantityPosted) > 0
                /\ grBased # {}

\* C10: when MatchPOItems fails partway, the invoice is in its pre-operation
\* state or in the ERROR state and either none or all of the line updates of
\* the call are visible.
C10_AllOrNothing ==
  (ret.op = "MatchPOItems" /\ ret.code = 500 /\ aux.kind = "failed") =>
    /\ hdr.poMatchStatus = "ERROR"
    /\ \/ \A i \in aux.all : lines[i] = aux.before[i]
       \/ aux.processed = aux.all

\* =======================================================================
\* Properties of supplier matching (checked under SpecSupplier)
\* =======================================================================

\* MatchSupplier just ranked its candidates; aux.scored holds each candidate
\* with its name score and boosted score, aux.header the invoice as read
Ranked == ret.op = "MatchSupplier" /\ ret.code = 200 /\ aux.kind = "supplier"

\* which sender texts agree with which supplier texts, case and surrounding
\* blanks aside (cities, states) or on the first five digits (postal codes)
CitiesAgree(inv, sup) ==
  <<inv, sup>> \in { <<Text(<<" ","a","b">>), Text(<<"A","B">>)>>,
                     <<Text(<<"c"," ">>), Text(<<"C">>)>> }
StatesAgree(inv, sup) ==
  <<inv, sup>> \in { <<Text(<<"n","y"," ">>), Text(<<"N","Y">>)>> }
ZipsAgree(inv, sup) ==
  <<inv, sup>> \in { <<Text(<<"1","2","3","4","5">>),
                       Text(<<"1","2","3","4","5","-","6","7">>)>>,
                     <<Text(<<"1","2","3","4","5">>), Text(<<"1","2","3","4","5">>)>> }

\* raw + 0.05 / 0.03 / 0.02 for each agreement, in hundredths
ExpectedBoosted(header, c) ==
  c.nameScore
    + (IF CitiesAgree(header.senderCity, c.row.city) THEN 5 ELSE 0)
    + (IF StatesAgree(header.senderState, c.row.state) THEN 3 ELSE 0)
    + (IF ZipsAgree(header.senderPostalCode, c.row.postalCode) THEN 2 ELSE 0)

\* C4: MatchSupplier classifies the boosted score s of the top candidate:
\* s >= 0.95 HIGH/MATCHED, 0.85 <= s < 0.95 MEDIUM/MATCHED, 0.70 <= s < 0.85
\* LOW/MANUAL_REVIEW, s < 0.70 status NO_MATCH; lower bounds inclusive, every
\* score in exactly one band.
C4_Bands ==
  Ranked =>
    LET s == ret.res.matchScore
        r == ret.res
    IN  /\ \E c \in aux.scored : c.finalScore = s /\ c.row.supplierNumber = r.supplierNumber
        /\ \A c \in aux.scored : c.finalScore <= s
        /\ (s >= 95) => (r.confidence = "HIGH" /\ r.status = "MATCHED")
        /\ (s >= 85 /\ s < 95) => (r.confidence = "MEDIUM" /\ r.status = "MATCHED")
        /\ (s >= 70 /\ s < 85) => (r.confidence = "LOW" /\ r.status = "MANUAL_REVIEW")
        /\ (s < 70) => r.status = "NO_MATCH"
        /\ hdr.supplierMatchStatus = r.status
        /\ hdr.supplierMatchScore = Some(s)

\* C4 witness: a top candidate boosted from 0.68 to exactly 0.70 is LOW and
\* goes to manual review
C4_Witness ==
  /\ Ranked
  /\ ret.res.matchScore = 70
  /\ ret.res.confidence = "LOW"
  /\ ret.res.status = "MANUAL_REVIEW"
  /\ \E c \in aux.scored : c.finalScore = 70 /\ c.nameScore = 68

\* C5: for every candidate the boosted score is min(1.0, raw + 0.05 if the
\* cities match + 0.03 if the states match + 0.02 if the first five postal
\* digits match); the boosts add up and the result never exceeds 1.0.
C5_BoostedScore ==
  Ranked =>
    \A c \in aux.scored :
      /\ c.finalScore = (IF ExpectedBoosted(aux.header, c) <= 100
                         THEN ExpectedBoosted(aux.header, c) ELSE 100)
      /\ c.finalScore <= 100

\* C5 witness: a candidate agreeing on city, state and postal code whose raw
\* score plus 0.10 passes 1.0 and is capped
C5_Witness ==
  /\ Ranked
  /\ \E c \in aux.scored :
       /\ CitiesAgree(aux.header.senderCity, c.row.city)
       /\ StatesAgree(aux.header.senderState, c.row.state)
       /\ ZipsAgree(aux.header.senderPostalCode, c.row.postalCode)
       /\ c.nameScore = 93
       /\ c.finalScore = 100

\* =======================================================================
\* Properties of validation (checked under SpecValidate)
\* =======================================================================

\* ValidateInvoice just returned a validation
Validated == ret.op = "ValidateInvoice" /\ ret.code = 200 /\ aux.kind = "validated"

\* the entries of the four categories of a returned validation
AllEntries(v) ==
  v.supplierValidation.errors \o v.amountValidation.errors
    \o v.poValidation.errors \o v.threeWayMatchValidation.errors

CountOf(entries, severity) ==
  Cardinality({ i \in 1..Len(entries) : entries[i].severity = severity })

\* C6: isValid is true exactly when there is no ERROR entry; status is INVALID
\* with any ERROR, otherwise VALID_WITH_WARNINGS with any WARNING, otherwise
\* VALID; errorCount and warningCount are the numbers of ERROR and WARNING
\* entries over the four categories.
C6_Aggregation ==
  Validated =>
    LET v == ret.res
        errs == CountOf(AllEntries(v), "ERROR")
        warns == CountOf(AllEntries(v), "WARNING")
    IN  /\ v.errorCount = errs
        /\ v.warningCount = warns
        /\ v.isValid <=> (errs = 0)
        /\ v.status = (IF errs > 0 THEN "INVALID"
                       ELSE IF warns > 0 THEN "VALID_WITH_WARNINGS" ELSE "VALID")

\* C6 witness: a validation with warnings from two categories and no error
C6_Witness ==
  /\ Validated
  /\ ret.res.status = "VALID_WITH_WARNINGS"
  /\ ret.res.warningCount = 2
  /\ ret.res.isValid

\* C7: two consecutive ValidateInvoice calls on the invoice, nothing in
\* between, return the same errorCount, warningCount and status.
C7_Idempotent ==
  (Validated /\ aux.prior # <<>>) =>
    /\ ret.res.errorCount = aux.prior[1].errorCount
    /\ ret.res.warningCount = aux.prior[1].warningCount
    /\ ret.res.status = aux.prior[1].status

\* C7 witness: a second validation in a row of an invoice the first one found
\* invalid and put into status ERROR
C7_Witness ==
  /\ Validated
  /\ aux.prior # <<>>
  /\ aux.prior[1].errorCount > 0
  /\ aux.prior[1].warningCount > 0
  /\ hdr.status = "ERROR"

\* a step is a successful ValidateInvoice call
ValidateStep == calls' = calls + 1 /\ ret'.op = "ValidateInvoice" /\ ret'.code = 200

\* lines, PO lines and suppliers are untouched and exactly one log entry is added
RestUnchanged ==
  /\ lines' = lines
  /\ poItems' = poItems
  /\ suppliers' = suppliers
  /\ Len(log') = Len(log) + 1
  /\ SubSeq(log', 1, Len(log)) = log

C9_PostFailure ==
  (ret.op = "PostToSAP" /\ aux.kind = "post" /\ ~aux.replies[1].ok) =>
    /\ hdr.status = "ERROR"
    /\ hdr.lastError # NULL /\ hdr.lastError # ""
    /\ hdr.lastErrorAt = Some(calls)
    /\ hdr.retryCount = Some(OrZero(aux.before.retryCount) + 1)
    /\ ret.code = 500
    /\ aux.attempts = 1

\* C9 witness: the second failed posting in a row, although the ERP would have
\* accepted a second attempt, leaves the retry counter at 2
C9_Witness ==
  /\ ret.op = "PostToSAP"
  /\ aux.kind = "post"
  /\ ~aux.replies[1].ok
  /\ aux.replies[2].ok
  /\ aux.before.retryCount = Some(1)
  /\ hdr.retryCount = Some(2)
  /\ ret.code = 500

\* =======================================================================
\* Error handling (checked under SpecPost)
\* =======================================================================

\* the call just made was given no invoice id, or the id of no invoice
BadRequestId == ~Truthy(ret'.headerId) \/ ~Found(ret'.headerId)

\* C11: every call given a missing invoice id or the id of an invoice that does
\* not exist is rejected with 400 or 404, leaves the invoice, its lines, the
\* PO lines and the supplier records unchanged and writes no log entry.
C11_RejectedUntouched ==
  [][ BadRequestId =>
        /\ ret'.code \in {400, 404}
        /\ UNCHANGED <<hdr, lines, poItems, suppliers, log>> ]_vars

\* the call just made ended in a business-rule failure: no supplier match, no
\* PO number, no line items, no PO line matched, a failed three-way match, or
\* validation errors
BusinessFailure ==
  /\ ret'.code = 200
  /\ \/ /\ ret'.op = "MatchPOItems"
        /\ \/ ret'.res.status \in {"NO_PO", "NO_ITEMS", "NO_MATCH"}
           \/ ret'.res.threeWayMatchRequired /\ ~ret'.res.threeWayMatchPassed
     \/ ret'.op = "MatchSupplier" /\ ret'.res.status = "NO_MATCH"
     \/ ret'.op = "ValidateInvoice" /\ ~ret'.res.isValid

\* the call just made updated the invoice row and appended one log entry
UpdatedAndLogged ==
  /\ hdr'.modifiedDate = Some(calls')
  /\ Len(log') = Len(log) + 1

\* C12: every call that returns a business-rule failure as a normal result has
\* updated the invoice record and written one audit log entry.
C12_FailureRecorded == [][ BusinessFailure => UpdatedAndLogged ]_vars

\* =======================================================================
\* Error handling of supplier matching (checked under SpecSupplier)
\* =======================================================================

\* the invoice carries neither a sender name nor a receiver name
Nameless(h) == ~Truthy(h.senderName) /\ ~Truthy(h.receiverName)

\* C13: MatchSupplier on an invoice with neither a sender name nor a receiver
\* name returns normally with status NO_MATCH, confidence NONE and a message,
\* and runs no similarity search.
C13_NoName ==
  [][ ret'.op = "MatchSupplier" /\ ret'.headerId = InvoiceId /\ Nameless(hdr) =>
        /\ ret'.code = 200
        /\ ret'.res.status = "NO_MATCH"
        /\ ret'.res.confidence = "NONE"
        /\ Truthy(ret'.res.message)
        /\ aux'.kind = "nosupplier" /\ ~aux'.searched ]_vars

\* C13 witness: MatchSupplier answered NO_MATCH without a search for an invoice
\* whose sender name is missing and whose receiver name is the empty string
C13_Witness ==
  /\ ret.op = "MatchSupplier" /\ ret.code = 200
  /\ aux.kind = "nosupplier" /\ ~aux.searched
  /\ hdr.senderName = NULL /\ hdr.receiverName = ""
  /\ hdr.supplierMatchStatus = "NO_MATCH"

\* =======================================================================
\* Early returns of PO matching (checked under SpecPO)
\* =======================================================================

\* a MatchPOItems call for the invoice that gives no PO number
CallWithoutPO == \E f \in BOOLEAN : MatchPOItemsCall(InvoiceId, NULL, f)

\* any MatchPOItems call for the invoice that did not end in a technical failure
\* (the PO sync or the vector search throwing)
CallCompleted ==
  /\ ret'.code # 500
  /\ \E po \in {NULL} \cup PONumbers, f \in BOOLEAN : MatchPOItemsCall(InvoiceId, po, f)

ResolvedRows(line) ==
  { i \in 1..Len(poItems) : /\ poItems[i].invoiceHeader_ID = InvoiceId
                            /\ line.matchedPOItem_ID = Some(poItems[i].ID) }

\* positions of the lines that are MATCHED and whose reference resolves
PostableIdx ==
  { i \in 1..Len(lines) : lines[i].matchStatus = "MATCHED" /\ ResolvedRows(lines[i]) # {} }

\* the k-th smallest element of a set of numbers
RECURSIVE Nth(_, _)
Nth(S, k) == IF k = 1 THEN MinOf(S) ELSE Nth(S \ {MinOf(S)}, k - 1)

\* the item numbers a payload of up to nine items has to carry
ItemNumerals == <<"0001", "0002", "0003", "0004", "0005", "0006", "0007", "0008", "0009">>

\* PostToSAP has just built the supplier-invoice payload of the invoice
PayloadBuilt ==
  /\ ret.op = "PostToSAP" /\ aux.kind = "post"
  /\ aux.postingType = "SUPPLIER_INVOICE"

\* C15: the payload has exactly one item per line that is MATCHED with a
\* reference resolving to a PO row of the invoice, in line order, and none for
\* any other line; the items are numbered 0001, 0002, ... without gaps.
C15_PayloadItems ==
  PayloadBuilt =>
    LET items == aux.to_SuplrInvcItemPurOrdRef
    IN  /\ Len(items) = Cardinality(PostableIdx)
        /\ \A k \in 1..Len(items) :
             LET line == lines[Nth(PostableIdx, k)]
             IN  /\ items[k].SupplierInvoiceItem = ItemNumerals[k]
                 /\ \E r \in ResolvedRows(line) :
                      /\ items[k].PurchaseOrder = poItems[r].PurchaseOrder
                      /\ items[k].PurchaseOrderItem = poItems[r].PurchaseOrderItem

\* C15 witness: a payload of one item, numbered 0001, for the second line; the
\* first line is MATCHED but its PO row is not among the invoice's rows
C15_Witness ==
  /\ PayloadBuilt
  /\ Len(lines) = 2
  /\ lines[1].matchStatus = "MATCHED" /\ ResolvedRows(lines[1]) = {}
  /\ lines[2].matchStatus = "MATCHED" /\ ResolvedRows(lines[2]) # {}
  /\ Len(aux.to_SuplrInvcItemPurOrdRef) = 1
  /\ aux.to_SuplrInvcItemPurOrdRef[1].SupplierInvoiceItem = "0001"

\* =======================================================================
\* Amount validation (checked under SpecValidate)
\* =======================================================================

\* the five amount checks: the code of the entry and whether the header fails it
AmountChecks(h) ==
  { <<"AMT_001", h.netAmount = None \/ h.netAmount[1] <= 0>>,
    <<"AMT_002", h.grossAmount = None \/ h.grossAmount[1] <= 0>>,
    <<"AMT_003", h.currencyCode \in {NULL, ""}>>,
    <<"AMT_004", h.documentDate \in {NULL, ""}>>,
    <<"AMT_005", h.companyCode \in {NULL, ""}>> }

\* number of ERROR entries with the given code among the amount entries
AmountErrors(v, code) ==
  Cardinality({ i \in 1..Len(v.amountValidation.errors) :
                  /\ v.amountValidation.errors[i].code = code
                  /\ v.amountValidation.errors[i].severity = "ERROR" })

\* C16: in a returned validation each failing amount check (net amount missing
\* or <= 0, gross amount missing or <= 0, currency, document date, company code
\* missing) has its own ERROR entry, so errorCount is at least the number of
\* failing checks; with currency and net amount both missing the result is
\* isValid = false, status INVALID, errorCount >= 2.
C16_AmountErrors ==
  Validated =>
    LET v == ret.res
        failing == { c \in AmountChecks(hdr) : c[2] }
    IN  /\ \A c \in failing : AmountErrors(v, c[1]) = 1
        /\ v.errorCount >= Cardinality(failing)
        /\ (hdr.currencyCode = NULL /\ hdr.netAmount = None =>
              ~v.isValid /\ v.status = "INVALID" /\ v.errorCount >= 2)

\* C16 witness: a validation of an invoice without currency, net amount and
\* company code, reported with the three codes
C16_Witness ==
  /\ Validated
  /\ hdr.currencyCode = NULL /\ hdr.netAmount = None /\ hdr.companyCode = NULL
  /\ ~ret.res.isValid /\ ret.res.status = "INVALID"
  /\ AmountErrors(ret.res, "AMT_001") = 1
  /\ AmountErrors(ret.res, "AMT_003") = 1
  /\ AmountErrors(ret.res, "AMT_005") = 1

\* =======================================================================
\* Ranking of the supplier candidates (checked under SpecSupplier)
\* =======================================================================

\* the boosted score of the k-th row the query returned, capped at 1.0
BoostedAt(k) ==
  IF ExpectedBoosted(aux.header, aux.returned[k]) <= 100
  THEN ExpectedBoosted(aux.header, aux.returned[k]) ELSE 100

\* positions, in the order the query returned its rows, of the candidates whose
\* boosted score is the highest
TopPositions ==
  { k \in 1..Len(aux.returned) : \A l \in 1..Len(aux.returned) : BoostedAt(l) <= BoostedAt(k) }

\* C17: the winner of MatchSupplier has the highest boosted score of all
\* returned candidates, and of the candidates with that score it is the one the
\* similarity query returned first.
C17_Winner ==
  Ranked =>
    /\ ret.res.matchScore = BoostedAt(MinOf(TopPositions))
    /\ ret.res.supplierNumber = aux.returned[MinOf(TopPositions)].row.supplierNumber

\* C17 witness: two candidates end with the same boosted score 0.70, the second
\* returned only through its boost; the first returned is the winner
C17_Witness ==
  /\ Ranked
  /\ Len(aux.returned) = 2
  /\ aux.returned[1].nameScore = 70 /\ aux.returned[2].nameScore = 68
  /\ TopPositions = {1, 2}
  /\ ret.res.supplierNumber = aux.returned[1].row.supplierNumber

\* =======================================================================
\* The matching loop and the summary (checked under SpecPO)
\* =======================================================================

\* MatchPOItems just ran its matching loop to the end; aux.pre holds the lines
\* as the loop left them (before consolidation), aux.cand the search results
Matched == ret.op = "MatchPOItems" /\ ret.code = 200 /\ aux.kind = "matched"

MatchedNow == Cardinality({ i \in 1..Len(lines) : lines[i].matchStatus = "MATCHED" })

\* C19 (checked under SpecSummary): with m the MATCHED lines and t all lines
\* after consolidation, MatchPOItems reports the rate m / t (stored as a
\* percentage), confidence HIGH when m / t >= 0.9, MEDIUM when >= 0.7, LOW
\* otherwise, and poMatchStatus MATCHED when m = t, PARTIAL when 0 < m < t,
\* NO_MATCH when m = 0.
C19_Summary ==
  Matched =>
    LET m == MatchedNow
        t == Len(lines)
    IN  /\ t > 0
        /\ ret.res.finalItemCount = t
        /\ hdr.poMatchConfidence = Some((m * 10000 + (t \div 2)) \div t)
        /\ ret.res.confidence = (IF 10 * m >= 9 * t THEN "HIGH"
                                 ELSE IF 10 * m >= 7 * t THEN "MEDIUM" ELSE "LOW")
        /\ ret.res.status = (IF m = t THEN "MATCHED"
                             ELSE IF m > 0 THEN "PARTIAL" ELSE "NO_MATCH")
        /\ hdr.poMatchStatus = ret.res.status

\* C19 witness: four lines, three of them matched, two of these to the same PO
\* line: after consolidation two of three lines are MATCHED, the confidence is
\* LOW (0.67, not the 0.75 of the lines before consolidation) and the status PARTIAL
C19_Witness ==
  /\ Matched
  /\ Len(aux.pre) = 4 /\ ret.res.matchedItems = 3
  /\ Len(lines) = 3 /\ MatchedNow = 2
  /\ ret.res.confidence = "LOW" /\ ret.res.status = "PARTIAL"
  /\ hdr.poMatchConfidence = Some(6667)

\* a MEDIUM confidence is reported: three of four remaining lines are MATCHED
C19_Medium ==
  /\ Matched
  /\ Len(lines) = 4 /\ MatchedNow = 3
  /\ ret.res.confidence = "MEDIUM"

\* =======================================================================
\* Supplier validation after supplier matching (checked under
\* SpecSupplierValidate)
\* =======================================================================

\* the supplier entries of the validation just returned, by severity
SupplierReported(severity) ==
  \E i \in 1..Len(ret'.res.supplierValidation.errors) :
    ret'.res.supplierValidation.errors[i].severity = severity

\* C20: a returned validation has a supplier ERROR whenever the invoice has no
\* matched supplier, a supplier WARNING whenever it has a supplier match score
\* below 0.70, and a supplier ERROR whenever the call before it was a
\* MatchSupplier that returned status NO_MATCH.
C20_SupplierCheck ==
  [][ ValidateStep =>
        /\ (hdr.matchedSupplierNumber \in {NULL, ""} => SupplierReported("ERROR"))
        /\ (hdr.supplierMatchScore # None /\ hdr.supplierMatchScore[1] < 70
              => SupplierReported("WARNING"))
        /\ (ret.op = "MatchSupplier" /\ ret.code = 200 /\ ret.res.status = "NO_MATCH"
              => SupplierReported("ERROR")) ]_vars

\* the first two parts of C20 alone: what the validation makes of the header
C20_HeaderCheck ==
  [][ ValidateStep =>
        /\ (hdr.matchedSupplierNumber \in {NULL, ""} => SupplierReported("ERROR"))
        /\ (hdr.supplierMatchScore # None /\ hdr.supplierMatchScore[1] < 70
              => SupplierReported("WARNING")) ]_vars

\* =======================================================================
\* PO validation (checked under SpecValidate)
\* =======================================================================

\* number of lines of the invoice with match status MATCHED
MatchedLines == Cardinality({ i \in 1..Len(lines) : lines[i].matchStatus = "MATCHED" })

\* the severities of the PO entries of a returned validation, in order
POSeverities(v) ==
  [ i \in 1..Len(v.poValidation.errors) |-> v.poValidation.errors[i].severity ]

\* C21: ValidateInvoice evaluates the PO check only when the invoice has a PO
\* number: one PO ERROR when the invoice has at least one line and none is
\* MATCHED, one PO WARNING when some but not all lines are MATCHED, no PO entry
\* when all lines are MATCHED or the invoice has no lines (or no PO number).
C21_POCheck ==
  Validated =>
    LET n == Len(lines)
        m == MatchedLines
        sev == POSeverities(ret.res)
    IN  IF hdr.purchaseOrderNumber \in {NULL, ""} THEN sev = <<>>
        ELSE /\ (n >= 1 /\ m = 0) => sev = <<"ERROR">>
             /\ (m > 0 /\ m < n) => sev = <<"WARNING">>
             /\ (m = n) => sev = <<>>

\* C21 witness: a validation of an invoice with PO number and two lines, one of
\* them MATCHED, reported with the single warning PO_002
C21_Witness ==
  /\ Validated
  /\ hdr.purchaseOrderNumber = "PO1"
  /\ Len(lines) = 2 /\ MatchedLines = 1
  /\ Len(ret.res.poValidation.errors) = 1
  /\ ret.res.poValidation.errors[1].code = "PO_002"
  /\ ret.res.poValidation.errors[1].severity = "WARNING"

\* =======================================================================
\* Three-way-match validation (checked under SpecMatchValidate)
\* =======================================================================

\* PO matching followed by validation on the extracted invoice
NextMatchValidate == MatchPOItems \/ ValidateInvoice

SpecMatchValidate == InitPO /\ [][NextMatchValidate]_vars

\* a returned validation holds a three-way-match ERROR with the given code
ThreeWayReported(code) ==
  \E i \in 1..Len(ret.res.threeWayMatchValidation.errors) :
    /\ ret.res.threeWayMatchValidation.errors[i].code = code
    /\ ret.res.threeWayMatchValidation.errors[i].severity = "ERROR"

\* what C22 asks of a returned validation, given the header validated
ThreeWayChecked ==
  IF hdr.threeWayMatchRequired = Some(TRUE)
  THEN /\ (hdr.grCheckPassed # Some(TRUE) => ThreeWayReported("GR_001"))
       /\ (hdr.threeWayMatchStatus = "FAILED" => ThreeWayReported("GR_002"))
  ELSE ret.res.threeWayMatchValidation.errors = <<>>

\* C22: ValidateInvoice evaluates the three-way-match check whenever the
\* invoice's threeWayMatchRequired is true, whether the PO number came from the
\* invoice or was passed explicitly to MatchPOItems: an ERROR when the
\* goods-receipt check did not pass, an ERROR when the three-way-match status is
\* FAILED, and no three-way-match entry when three-way match is not required.
C22_ThreeWayCheck == Validated => ThreeWayChecked

\* the same for invoices that carry a PO number of their own
C22_WithOwnPONumber ==
  Validated /\ hdr.purchaseOrderNumber \notin {NULL, ""} => ThreeWayChecked

\* a failed three-way match of an invoice with its own PO number is reported
C22_OwnPOReached ==
  /\ Validated /\ hdr.purchaseOrderNumber = "PO1"
  /\ hdr.threeWayMatchRequired = Some(TRUE) /\ hdr.threeWayMatchStatus = "FAILED"
  /\ ThreeWayReported("GR_001") /\ ThreeWayReported("GR_002")

\* =======================================================================
\* workflow.js InitializeBPAWorkflow, invoice.js RecordApproval
\* =======================================================================

\* lines 36-40: the header as InitializeBPAWorkflow updates it
BPAStartedHeader(h, now) ==
  Touch([h EXCEPT !.step = "BPA_STARTED", !.status = "IN_PROGRESS",
                  !.message = <<"BPA workflow initiated">>], now)

\* srv.on('InitializeBPAWorkflow')
InitializeBPAWorkflow ==
  /\ calls < MaxCalls
  /\ calls' = calls + 1
  /\ \E headerId \in HeaderIds :
       IF ~Truthy(headerId) THEN Reject("InitializeBPAWorkflow", headerId, 400)
       ELSE IF ~Found(headerId) THEN Reject("InitializeBPAWorkflow", headerId, 404)
       ELSE \/ \* the read throws: catch, req.error(500), nothing written
               /\ ret' = [op |-> "InitializeBPAWorkflow", headerId |-> headerId,
                          code |-> 500, res |-> [status |-> "FAILED"]]
               /\ aux' = [kind |-> "none"]
               /\ UNCHANGED <<hdr, lines, poItems, nextPoId, suppliers, log>>
            \/ /\ hdr' = BPAStartedHeader(hdr, Now)
               /\ log' = logProcess(log, "BPA_INIT", "STARTED", "SUCCESS")
               /\ ret' = [op |-> "InitializeBPAWorkflow", headerId |-> headerId, code |-> 200,
                          res |-> [ headerId |-> headerId, step |-> "BPA_STARTED",
                                    status |-> "IN_PROGRESS",
                                    senderName |-> hdr.senderName,
                                    purchaseOrderNumber |-> hdr.purchaseOrderNumber,
                                    matchedSupplierNumber |-> hdr.matchedSupplierNumber,
                                    supplierMatchStatus |-> hdr.supplierMatchStatus,
                                    doxItemCount |-> Len(lines) ]]
               /\ aux' = [kind |-> "bpa", before |-> hdr.step]
               /\ UNCHANGED <<lines, poItems, nextPoId, suppliers>>

\* the approver's decision as sent: missing, true or false
Approvals == {None, Some(TRUE), Some(FALSE)}
Approvers == {NULL, "alice"}
Comments == {NULL, "too high"}

\* lines 289-305: the header as RecordApproval updates it
ApprovalHeader(h, approved, approver, comments, now) ==
  LET h1 == [h EXCEPT !.approvalStatus = IF approved THEN "APPROVED" ELSE "REJECTED",
                      !.approvedBy = approver,
                      !.approvedAt = Some(now),
                      !.step = IF approved THEN "APPROVED" ELSE "REJECTED",
                      !.status = IF approved THEN "COMPLETED" ELSE "ERROR",
                      !.result = IF approved THEN "SUCCESS" ELSE "FAILURE",
                      !.message = IF approved THEN <<"Approved by", approver>>
                                  ELSE <<"Rejected by", approver,
                                         IF Truthy(comments) THEN comments
                                         ELSE "No reason provided">>]
  IN  Touch(IF approved THEN h1
            ELSE [h1 EXCEPT !.rejectionReason = IF Truthy(comments) THEN comments
                                                ELSE "Rejected by approver"], now)

\* srv.on('RecordApproval'): the handler reads ID and status of the invoice and
\* looks at neither
RecordApproval ==
  /\ calls < MaxCalls
  /\ calls' = calls + 1
  /\ \E headerId \in HeaderIds, approved \in Approvals,
        approver \in Approvers, comments \in Comments :
       IF ~Truthy(headerId) \/ approved = None \/ ~Truthy(approver)
       THEN Reject("RecordApproval", headerId, 400)
       ELSE IF ~Found(headerId) THEN Reject("RecordApproval", headerId, 404)
       ELSE /\ hdr' = ApprovalHeader(hdr, approved[1], approver, comments, Now)
            /\ log' = logProcess(log, IF approved[1] THEN "APPROVED" ELSE "REJECTED",
                                 IF approved[1] THEN "COMPLETED" ELSE "REJECTED",
                                 IF approved[1] THEN "SUCCESS" ELSE "FAILURE")
            /\ ret' = [op |-> "RecordApproval", headerId |-> headerId, code |-> 200,
                       res |-> [status |-> IF approved[1] THEN "APPROVED" ELSE "REJECTED"]]
            /\ aux' = [kind |-> "approval", before |-> hdr.step]
            /\ UNCHANGED <<lines, poItems, nextPoId, suppliers>>

\* ------------------------------------------------- lifecycle specification
\* the operations that follow the matching steps, called in any order on the
\* invoices the earlier steps leave
NextLifecycle ==
  \/ InitializeBPAWorkflow
  \/ ValidateInvoice
  \/ RecordApproval
  \/ PostToSAP
  \/ RecordPostingResult

SpecLifecycle == InitPosting /\ [][NextLifecycle]_vars

\* =======================================================================
\* The invoice's step (checked under SpecLifecycle)
\* =======================================================================

\* the step values of the documented lifecycle
DocumentedSteps ==
  { "RECEIVED", "DOX_EXTRACTED", "SUPPLIER_MATCHED", "SUPPLIER_MATCH_FAILED",
    "PO_MATCHED", "PO_MATCH_SKIPPED", "VALIDATED", "VALIDATION_FAILED",
    "APPROVED", "REJECTED", "POSTED", "POST_FAILED" }

\* C23: in every reachable state the invoice's step is one of the twelve
\* documented values; no operation writes any other step value.
C23_DocumentedSteps == hdr.step \in DocumentedSteps

\* the steps written by the operations other than InitializeBPAWorkflow and a
\* failed PostToSAP are documented ones
C23_OtherOperations ==
  [][ ret'.op \in {"ValidateInvoice", "RecordApproval", "RecordPostingResult"}
        \/ (ret'.op = "PostToSAP" /\ ret'.code # 500)
      => hdr'.step \in DocumentedSteps \/ hdr'.step = hdr.step ]_vars

\* C24: POSTED and REJECTED are terminal: once the invoice's step is POSTED or
\* REJECTED, no later invocation of any operation changes its step.
C24_Terminal ==
  [][ hdr.step \in {"POSTED", "REJECTED"} => hdr'.step = hdr.step ]_vars

\* the requests that are refused (400, 404) leave a POSTED or REJECTED step alone
C24_RefusedRequests ==
  [][ hdr.step \in {"POSTED", "REJECTED"} /\ ret'.code \in {400, 404}
        => hdr'.step = hdr.step ]_vars

\* C25: the invoice's step becomes POSTED only when its step immediately before
\* the posting call was APPROVED (or POST_FAILED on an external retry), so an
\* invoice that was never approved, or that failed validation, is never posted.
C25_PostedAfterApproval ==
  [][ hdr'.step = "POSTED" /\ hdr.step # "POSTED"
        => hdr.step \in {"APPROVED", "POST_FAILED"} ]_vars

\* posting an approved invoice does lead to POSTED
C25_ApprovedPosted ==
  /\ ret.op = "PostToSAP" /\ ret.code = 200 /\ aux.kind = "post"
  /\ aux.before.step = "APPROVED" /\ hdr.step = "POSTED"

\* =======================================================================
\* The cached PO lines (checked under SpecPO)
\* =======================================================================

\* C26: after any sequence of SyncPOFromSAP, UpsertPOItems and
\* UpsertGRSnapshots calls, batches with the same PO item more than once
\* included, the cached PO lines hold at most one row per (PO number, PO item,
\* invoice).
C26_UniqueRows ==
  \A i, j \in 1..Len(poItems) :
    ( /\ poItems[i].PurchaseOrder = poItems[j].PurchaseOrder
      /\ poItems[i].PurchaseOrderItem = poItems[j].PurchaseOrderItem
      /\ poItems[i].invoiceHeader_ID = poItems[j].invoiceHeader_ID ) => i = j

\* C26 witness: the first call is an UpsertPOItems of two items that leaves a
\* single row in the cache, so the batch held the same PO item twice
C26_Witness ==
  /\ calls = 1
  /\ ret.op = "UpsertPOItems" /\ ret.code = 200 /\ ret.res.upserted = 2
  /\ Len(poItems) = 1 /\ nextPoId = 2

\* the received quantity of the cached row with the given ID, 0 when not set
ReceivedOf(rows, id) ==
  LET S == { i \in 1..Len(rows) : rows[i].ID = id }
  IN  IF S = {} THEN 0 ELSE OrZero(rows[MinOf(S)].GrQuantityPosted)

\* no cached row's received quantity is lower after the step than before
ReceivedKept ==
  \A i \in 1..Len(poItems) :
    ReceivedOf(poItems', poItems[i].ID) >= ReceivedOf(poItems, poItems[i].ID)

\* C27: a cached PO line's received quantity never decreases: across any
\* sequence of SyncPOFromSAP, UpsertPOItems and UpsertGRSnapshots calls with
\* non-negative goods-receipt quantities (MatchPOItems with refresh from the
\* ERP included), the received quantity after each call is greater than or
\* equal to its value before the call.
C27_ReceivedMonotone == [][ ReceivedKept ]_vars

\* the goods-receipt sync alone never lowers a received quantity
C27_GRSnapshots == [][ ret'.op = "UpsertGRSnapshots" => ReceivedKept ]_vars

\* =======================================================================
\* The lines after PO matching (checked under SpecPO)
\* =======================================================================

\* the MATCHED lines of the invoice that reference a PO line
ReferencingLines ==
  { i \in 1..Len(lines) : lines[i].matchStatus = "MATCHED" /\ lines[i].matchedPOItem_ID # None }

\* C28: after every MatchPOItems call that completed the matching, and after
\* any sequence of such calls on the invoice, no two MATCHED lines reference
\* the same PO line, and running the consolidation again consolidates zero
\* groups and deletes zero lines.
C28_NoDuplicateReferences ==
  Matched =>
    /\ \A i, j \in ReferencingLines :
         lines[i].matchedPOItem_ID = lines[j].matchedPOItem_ID => i = j
    /\ consolidateDuplicatePOItems(lines).consolidatedCount = 0
    /\ consolidateDuplicatePOItems(lines).deletedCount = 0
    /\ consolidateDuplicatePOItems(lines).lines = lines

\* C28 witness: the second call of a behaviour is a MatchPOItems that matched
\* both lines to one PO line and consolidated them into the single line left
C28_Witness ==
  /\ Matched /\ calls = 2
  /\ Len(aux.pre) = 2 /\ aux.consolidatedCount = 1 /\ aux.deletedCount = 1
  /\ Len(lines) = 1 /\ ReferencingLines = {1}

\* =======================================================================
\* The step after supplier matching (checked under SpecSupplier)
\* =======================================================================

\* MatchSupplier just returned a result for the invoice
SupplierReturned == ret.op = "MatchSupplier" /\ ret.code = 200

\* C29: whenever MatchSupplier returns status NO_MATCH (no name, no candidates,
\* or a best boosted score below 0.70) the invoice's step after the call is
\* SUPPLIER_MATCH_FAILED and its supplierMatchStatus is NO_MATCH; the step is
\* SUPPLIER_MATCHED only when the returned status is MATCHED or MANUAL_REVIEW.
C29_StepFollowsStatus ==
  SupplierReturned =>
    /\ (ret.res.status = "NO_MATCH"
          => hdr.step = "SUPPLIER_MATCH_FAILED" /\ hdr.supplierMatchStatus = "NO_MATCH")
    /\ (hdr.step = "SUPPLIER_MATCHED"
          => ret.res.status \in {"MATCHED", "MANUAL_REVIEW"})

\* the NO_MATCH results without a candidate do leave step SUPPLIER_MATCH_FAILED,
\* and every result leaves the returned status as supplierMatchStatus
C29_WithoutCandidate ==
  SupplierReturned =>
    /\ hdr.supplierMatchStatus = ret.res.status
    /\ (aux.kind = "nosupplier"
          => ret.res.status = "NO_MATCH" /\ hdr.step = "SUPPLIER_MATCH_FAILED")
    /\ (ret.res.status \in {"MATCHED", "MANUAL_REVIEW"} => hdr.step = "SUPPLIER_MATCHED")

\* =======================================================================
\* workflow.js ProcessSupplierSelection
\* =======================================================================

\* supplier.js MatchSupplier, lines 39-59 and 90-111, run on header h: the
\* result when there is no name or the search returns no row
RematchNotFound(h, sups, lg, logStatus, msg, resMsg, now) ==
  [ code |-> 200,
    hdr |-> Touch([h EXCEPT !.supplierMatchStatus = "NO_MATCH",
                            !.step = "SUPPLIER_MATCH_FAILED", !.message = <<msg>>], now),
    suppliers |-> sups,
    log |-> logProcess(lg, "MATCH_SUPPLIER", logStatus, "FAILURE"),
    res |-> [ supplierNumber |-> NULL, supplierName |-> NULL, matchScore |-> 0,
              confidence |-> "NONE", status |-> "NO_MATCH", message |-> resMsg ] ]

\* supplier.js MatchSupplier, lines 238-252, run on header h: the catch block
RematchError(h, sups, lg, now) ==
  [ code |-> 500,
    hdr |-> Touch([h EXCEPT !.supplierMatchStatus = "ERROR",
                            !.step = "SUPPLIER_MATCH_ERROR",
                            !.lastError = "search failed", !.lastErrorAt = Some(now)], now),
    suppliers |-> sups,
    log |-> logProcess(lg, "MATCH_SUPPLIER", "ERROR", "FAILURE"),
    res |-> [status |-> "FAILED"] ]

\* supplier.js MatchSupplier, lines 113-236, run on header h: the results with
\* a best candidate
RematchFound(h, sups, lg, nameScore, now) ==
  { LET b == bestMatchIdx(h, sups, nameScore, order)
        matchScore == FinalScore(h, sups[b], nameScore[b])
    IN  [ code |-> 200,
          hdr |-> SupplierMatchedHeader(h, sups[b], matchScore, now),
          suppliers |-> [sups EXCEPT ![b].lastChangedAt = Some(now)],
          log |-> logProcess(lg, "MATCH_SUPPLIER", Classify(matchScore).matchStatus,
                             IF Classify(matchScore).matchStatus = "MATCHED"
                             THEN "SUCCESS" ELSE "PARTIAL"),
          res |-> [ supplierNumber |-> sups[b].supplierNumber,
                    supplierName |-> sups[b].supplierName,
                    matchScore |-> matchScore,
                    confidence |-> Classify(matchScore).confidence,
                    status |-> Classify(matchScore).matchStatus ] ] :
    order \in OracleOrders(sups, nameScore) }

\* srv.send({event: 'MatchSupplier', data: {headerId}}) inside a handler: what
\* the MatchSupplier handler can make of the stored header h
MatchSupplierSent(h, sups, lg, now) ==
  LET supplierName == IF Truthy(h.senderName) THEN h.senderName ELSE h.receiverName
  IN  IF ~HasSupplierName(supplierName)
      THEN { RematchNotFound(h, sups, lg, "FAILED", "No supplier name",
                             "No supplier name found on invoice", now) }
      ELSE { RematchError(h, sups, lg, now) }
           \cup UNION { IF TopRows(sups, nameScore) = {}
                        THEN { RematchNotFound(h, sups, lg, "NO_MATCH",
                                               "No supplier match found",
                                               "No supplier found matching", now) }
                        ELSE RematchFound(h, sups, lg, nameScore, now) :
                        nameScore \in [Searchable(sups) -> RawScores] }

\* supplierNumber.padStart(10, '0')
SupplierNumberWidth == 10
padStart10(str) ==
  IF Len(str) >= SupplierNumberWidth THEN str
  ELSE SubSeq("0000000000", 1, SupplierNumberWidth - Len(str)) \o str

\* what ValidateSupplierNumber can answer: it throws, the number is invalid, or
\* it is valid and comes with the supplier's name
SupplierValidations ==
  { [ok |-> FALSE, valid |-> FALSE, supplierName |-> NULL],
    [ok |-> TRUE, valid |-> FALSE, supplierName |-> NULL],
    [ok |-> TRUE, valid |-> TRUE, supplierName |-> "ACME Corporation"] }

SelectionTypes == {NULL, "ACCEPT", "MANUAL", "UPDATE_NAME", "SKIP"}
SupplierNumbers == {NULL, "S1"}
UpdatedNames == {NULL, "", "Acme Corporation"}

\* the handler ends with req.error(code, ..) after the given writes
SelectionRefused(headerId, code, h, sups, lg) ==
  /\ hdr' = h
  /\ suppliers' = sups
  /\ log' = lg
  /\ ret' = [op |-> "ProcessSupplierSelection", headerId |-> headerId, code |-> code,
             res |-> [status |-> "REJECTED"]]
  /\ aux' = [kind |-> "none"]
  /\ UNCHANGED <<lines, poItems, nextPoId>>

\* the handler returns `result`
SelectionDone(headerId, h, sups, lg, result, rematch) ==
  /\ hdr' = h
  /\ suppliers' = sups
  /\ log' = lg
  /\ ret' = [op |-> "ProcessSupplierSelection", headerId |-> headerId, code |-> 200,
             res |-> result]
  /\ aux' = [kind |-> "selection", before |-> hdr, rematch |-> rematch]
  /\ UNCHANGED <<lines, poItems, nextPoId>>

\* lines 135-171
SelectionAccept(headerId) ==
  IF ~Truthy(hdr.matchedSupplierNumber)
  THEN SelectionRefused(headerId, 400, hdr, suppliers, log)
  ELSE \E validation \in SupplierValidations :
         IF ~validation.ok THEN SelectionRefused(headerId, 500, hdr, suppliers, log)
         ELSE IF ~validation.valid THEN SelectionRefused(headerId, 400, hdr, suppliers, log)
         ELSE SelectionDone(headerId,
                Touch([hdr EXCEPT !.supplier = hdr.matchedSupplierNumber,
                                  !.supplierName = hdr.matchedSupplierName,
                                  !.supplierMatchStatus = "ACCEPTED",
                                  !.step = "SUPPLIER_ACCEPTED",
                                  !.message = <<"accepted by user", hdr.matchedSupplierName>>],
                      Now),
                suppliers,
                logProcess(log, "SUPPLIER_SELECT", "ACCEPTED", "SUCCESS"),
                [ success |-> TRUE, action |-> "ACCEPTED",
                  supplierNumber |-> hdr.matchedSupplierNumber,
                  supplierName |-> hdr.matchedSupplierName,
                  rematchPerformed |-> FALSE, requiresReview |-> FALSE ],
                <<>>)

\* lines 176-223
SelectionManual(headerId, supplierNumber) ==
  IF ~Truthy(supplierNumber)
  THEN SelectionRefused(headerId, 400, hdr, suppliers, log)
  ELSE \E validation \in SupplierValidations :
         IF ~validation.ok THEN SelectionRefused(headerId, 500, hdr, suppliers, log)
         ELSE IF ~validation.valid THEN SelectionRefused(headerId, 400, hdr, suppliers, log)
         ELSE LET paddedNumber == padStart10(supplierNumber)
              IN  SelectionDone(headerId,
                    Touch([hdr EXCEPT !.matchedSupplierNumber = paddedNumber,
                                      !.matchedSupplierName = validation.supplierName,
                                      !.supplier = paddedNumber,
                                      !.supplierName = validation.supplierName,
                                      !.supplierMatchScore = Some(100),
                                      !.supplierMatchStatus = "MANUAL",
                                      !.step = "SUPPLIER_MANUAL",
                                      !.message = <<"manually entered",
                                                    validation.supplierName>>], Now),
                    suppliers,
                    logProcess(log, "SUPPLIER_SELECT", "MANUAL", "SUCCESS"),
                    [ success |-> TRUE, action |-> "VALIDATED",
                      supplierNumber |-> paddedNumber,
                      supplierName |-> validation.supplierName,
                      rematchPerformed |-> FALSE, requiresReview |-> FALSE ],
                    <<>>)

\* line 259: matchResult.confidence === 'LOW' || matchResult.confidence === 'NONE'
requiresReview(matchResult) == matchResult.confidence \in {"LOW", "NONE"}

\* lines 228-263: the name is written, then MatchSupplier is sent
SelectionUpdateName(headerId, updatedName) ==
  IF ~Truthy(updatedName)
  THEN SelectionRefused(headerId, 400, hdr, suppliers, log)
  ELSE LET named == Touch([hdr EXCEPT !.senderName = updatedName,
                                      !.step = "SUPPLIER_NAME_UPDATED",
                                      !.message = <<"name updated", updatedName>>], Now)
           logged == logProcess(log, "SUPPLIER_UPDATE", "NAME_CHANGED", "SUCCESS")
       IN  \E m \in MatchSupplierSent(named, suppliers, logged, Now) :
             IF m.code # 200
             THEN SelectionRefused(headerId, 500, m.hdr, m.suppliers, m.log)
             ELSE SelectionDone(headerId, m.hdr, m.suppliers, m.log,
                    [ success |-> TRUE, action |-> "UPDATED",
                      supplierNumber |-> m.res.supplierNumber,
                      supplierName |-> m.res.supplierName,
                      rematchPerformed |-> TRUE,
                      newMatchScore |-> m.res.matchScore,
                      newConfidence |-> m.res.confidence,
                      requiresReview |-> requiresReview(m.res) ],
                    <<m.res>>)

\* srv.on('ProcessSupplierSelection')
ProcessSupplierSelection ==
  /\ calls < MaxCalls
  /\ calls' = calls + 1
  /\ \E headerId \in HeaderIds, selectionType \in SelectionTypes,
        supplierNumber \in SupplierNumbers, updatedName \in UpdatedNames :
       IF ~Truthy(headerId) \/ ~Truthy(selectionType)
       THEN Reject("ProcessSupplierSelection", headerId, 400)
       ELSE IF ~Found(headerId) THEN Reject("ProcessSupplierSelection", headerId, 404)
       ELSE IF selectionType = "ACCEPT" THEN SelectionAccept(headerId)
       ELSE IF selectionType = "MANUAL" THEN SelectionManual(headerId, supplierNumber)
       ELSE IF selectionType = "UPDATE_NAME" THEN SelectionUpdateName(headerId, updatedName)
       ELSE Reject("ProcessSupplierSelection", headerId, 400)

\* ------------------------------------------ supplier selection specification
NextSelection == MatchSupplier \/ ProcessSupplierSelection

SpecSelection == InitSupplier /\ [][NextSelection]_vars

\* =======================================================================
\* Supplier selection (checked under SpecSelection)
\* =======================================================================

\* ProcessSupplierSelection just returned the result of an UPDATE_NAME
NameUpdated ==
  /\ ret.op = "ProcessSupplierSelection" /\ ret.code = 200
  /\ aux.kind = "selection" /\ ret.res.action = "UPDATED"

\* the MatchSupplier handler and the match sent by ProcessSupplierSelection do
\* the same on the same header
MatchSupplierAsSent ==
  [][ ret'.op = "MatchSupplier" /\ ret'.headerId = InvoiceId =>
        \E m \in MatchSupplierSent(hdr, suppliers, log, Now) :
          /\ hdr' = m.hdr /\ suppliers' = m.suppliers /\ log' = m.log
          /\ ret'.code = m.code /\ ret'.res = m.res ]_vars

\* C30: ProcessSupplierSelection with selection type UPDATE_NAME re-runs the
\* full supplier match on the corrected name and returns requiresReview = true
\* whenever the re-match did not end with status MATCHED (MANUAL_REVIEW and
\* every NO_MATCH outcome), requiresReview = false only when it is MATCHED.
C30_RequiresReview ==
  NameUpdated =>
    /\ ret.res.rematchPerformed
    /\ hdr.supplierMatchStatus = aux.rematch[1].status
    /\ (ret.res.requiresReview <=> aux.rematch[1].status # "MATCHED")

\* the re-match itself, and the review flag for the results other than a
\* NO_MATCH with a candidate
C30_Rematch ==
  NameUpdated =>
    /\ ret.res.rematchPerformed
    /\ hdr.supplierMatchStatus = aux.rematch[1].status
    /\ hdr.senderName = "Acme Corporation"
    /\ (aux.rematch[1].confidence # "VERY_LOW" =>
          (ret.res.requiresReview <=> aux.rematch[1].status # "MATCHED"))

\* a re-match that ends with MANUAL_REVIEW is returned with requiresReview
C30_ReviewReached ==
  NameUpdated /\ aux.rematch[1].status = "MANUAL_REVIEW" /\ ret.res.requiresReview

============================================================================
